---- MODULE Spec2Model ----
(***************************************************************************)
(* Planventure API: the itinerary generator                                *)
(* (planventure-api/utils/itinerary_generator.py, class ItineraryGenerator)*)
(* and the routes that serve trips (planventure-api/routes/trips.py) behind*)
(* the decorators of planventure-api/middleware/auth_middleware.py, the    *)
(* limiter of that file alone and under concurrent calls, and the routes   *)
(* that register and log in users (planventure-api/routes/auth.py).        *)
(*                                                                         *)
(* A text is a sequence of characters, each character a one-letter string  *)
(* ("i_dotless" stands for U+0131, the dotless i of "Balikesir" as it is   *)
(* written in Turkish).  A date is its proleptic Gregorian ordinal         *)
(* (date.toordinal()); strftime('%Y-%m-%d') turns it into <<y, m, d>>.     *)
(***************************************************************************)
EXTENDS Integers, Sequences, FiniteSets, TLC

VARIABLES
  call,          \* the public function under call and its arguments
  pc,            \* position in the call: "call", "loop", "except",
                 \* "basic_loop", "returned" or "raised"
  duration,      \* local of generate_default_itinerary / generate_basic_itinerary
  dest_type,     \* local of generate_default_itinerary
  itinerary,     \* local: the list being built
  current_date,  \* local: the loop's date
  day_num,       \* local: the loop's counter
  ret,           \* the value returned (when pc = "returned"), or the
                 \* HTTP response (when pc = "responded")
  users,         \* table users: id -> row
  trips,         \* table trips: id -> row
  rate_limit_storage, \* AuthMiddleware._rate_limit_storage:
                      \* identifier -> deque of timestamps
  heap,          \* the list objects: address -> elements
  thread,        \* the concurrent calls: thread -> call, position, locals
  clock,         \* time.time(), in ticks
  granted        \* history of the run: the times of the calls the limiter
                 \* allowed, in the order of their answers

\* the database and the limiter's memory
store == <<users, trips, rate_limit_storage>>

\* the clock and the history of the limiter
limiter == <<clock, granted>>

\* the lists, the calls of the threads and what belongs to them
threads == <<heap, thread, limiter>>

vars == <<call, pc, duration, dest_type, itinerary, current_date, day_num, ret,
          store, threads>>

-----------------------------------------------------------------------------
(* Bounds of the checked instance.                                         *)

\* longest trip, in days, that is generated
MaxDays == 4
\* most words in a destination text handed to classify_destination
MaxWords == 2
\* the first ordinary start date tried: 2024-02-28, so that trips cross the
\* leap day and the end of the month
BaseDate == 738944
\* days between the two dates of the long trip that is previewed
LongTrip == 367

\* date.max.toordinal(), 9999-12-31: the last value a datetime.date can hold
DateMaxOrdinal == 3652059

-----------------------------------------------------------------------------
(* Texts.                                                                  *)

LowerLetters ==
  << "a", "b", "c", "d", "e", "f", "g", "h", "i", "j", "k", "l", "m",
     "n", "o", "p", "q", "r", "s", "t", "u", "v", "w", "x", "y", "z" >>

UpperLetters ==
  << "A", "B", "C", "D", "E", "F", "G", "H", "I", "J", "K", "L", "M",
     "N", "O", "P", "Q", "R", "S", "T", "U", "V", "W", "X", "Y", "Z" >>

Min(a, b) == IF a < b THEN a ELSE b

\* str.lower() on one character: A-Z go to a-z; a-z, the space and the
\* dotless i (already lower case) are left as they are.
LowerChar(c) ==
  IF \E i \in 1..Len(UpperLetters) : UpperLetters[i] = c
    THEN LowerLetters[CHOOSE i \in 1..Len(UpperLetters) : UpperLetters[i] = c]
    ELSE c

\* str.lower()
lower(s) == [i \in 1..Len(s) |-> LowerChar(s[i])]

\* keyword in text
In(keyword, text) ==
  \E i \in 1..(Len(text) - Len(keyword) + 1) :
    \A j \in 1..Len(keyword) : text[i + j - 1] = keyword[j]

\* lst[:n] for n >= 0
Take(lst, n) == SubSeq(lst, 1, Min(n, Len(lst)))

-----------------------------------------------------------------------------
(* The static tables.                                                      *)

\* the keys of DESTINATION_KEYWORDS, in the order the dict literal
\* declares them (the order dict.items() iterates in)
DeclarationOrder ==
  << "beach", "city", "mountain", "cultural",
     "adventure", "business", "romantic", "family" >>

\* DESTINATION_KEYWORDS (lines 8-17)
DESTINATION_KEYWORDS ==
  [ beach |-> <<
        <<"b", "e", "a", "c", "h">>,
        <<"c", "o", "a", "s", "t">>,
        <<"i", "s", "l", "a", "n", "d">>,
        <<"r", "e", "s", "o", "r", "t">>,
        <<"t", "r", "o", "p", "i", "c", "a", "l">>,
        <<"b", "a", "l", "i">>,
        <<"h", "a", "w", "a", "i", "i">>,
        <<"m", "a", "l", "d", "i", "v", "e", "s">>,
        <<"c", "a", "r", "i", "b", "b", "e", "a", "n">> >>,
    city |-> <<
        <<"c", "i", "t", "y">>,
        <<"u", "r", "b", "a", "n">>,
        <<"m", "e", "t", "r", "o", "p", "o", "l", "i", "t", "a", "n">>,
        <<"d", "o", "w", "n", "t", "o", "w", "n">>,
        <<"p", "a", "r", "i", "s">>,
        <<"t", "o", "k", "y", "o">>,
        <<"l", "o", "n", "d", "o", "n">>,
        <<"n", "e", "w", " ", "y", "o", "r", "k">>,
        <<"b", "e", "r", "l", "i", "n">> >>,
    mountain |-> <<
        <<"m", "o", "u", "n", "t", "a", "i", "n">>,
        <<"a", "l", "p", "i", "n", "e">>,
        <<"p", "e", "a", "k">>,
        <<"s", "u", "m", "m", "i", "t">>,
        <<"h", "i", "k", "i", "n", "g">>,
        <<"t", "r", "e", "k", "k", "i", "n", "g">>,
        <<"a", "l", "p", "s">>,
        <<"h", "i", "m", "a", "l", "a", "y", "a", "s">> >>,
    cultural |-> <<
        <<"m", "u", "s", "e", "u", "m">>,
        <<"h", "i", "s", "t", "o", "r", "i", "c", "a", "l">>,
        <<"h", "e", "r", "i", "t", "a", "g", "e">>,
        <<"t", "e", "m", "p", "l", "e">>,
        <<"c", "a", "t", "h", "e", "d", "r", "a", "l">>,
        <<"p", "a", "l", "a", "c", "e">>,
        <<"a", "n", "c", "i", "e", "n", "t">>,
        <<"r", "o", "m", "e">>,
        <<"a", "t", "h", "e", "n", "s">> >>,
    adventure |-> <<
        <<"a", "d", "v", "e", "n", "t", "u", "r", "e">>,
        <<"s", "a", "f", "a", "r", "i">>,
        <<"w", "i", "l", "d", "l", "i", "f", "e">>,
        <<"n", "a", "t", "i", "o", "n", "a", "l", " ", "p", "a", "r", "k">>,
        <<"o", "u", "t", "d", "o", "o", "r">>,
        <<"c", "a", "m", "p", "i", "n", "g">>,
        <<"e", "x", "p", "e", "d", "i", "t", "i", "o", "n">> >>,
    business |-> <<
        <<"c", "o", "n", "f", "e", "r", "e", "n", "c", "e">>,
        <<"b", "u", "s", "i", "n", "e", "s", "s">>,
        <<"m", "e", "e", "t", "i", "n", "g">>,
        <<"c", "o", "r", "p", "o", "r", "a", "t", "e">>,
        <<"c", "o", "n", "v", "e", "n", "t", "i", "o", "n">>,
        <<"t", "r", "a", "d", "e", " ", "s", "h", "o", "w">> >>,
    romantic |-> <<
        <<"h", "o", "n", "e", "y", "m", "o", "o", "n">>,
        <<"r", "o", "m", "a", "n", "t", "i", "c">>,
        <<"c", "o", "u", "p", "l", "e", "s">>,
        <<"a", "n", "n", "i", "v", "e", "r", "s", "a", "r", "y">>,
        <<"v", "a", "l", "e", "n", "t", "i", "n", "e">> >>,
    family |-> <<
        <<"f", "a", "m", "i", "l", "y">>,
        <<"k", "i", "d", "s">>,
        <<"c", "h", "i", "l", "d", "r", "e", "n">>,
        <<"t", "h", "e", "m", "e", " ", "p", "a", "r", "k">>,
        <<"z", "o", "o">>,
        <<"a", "q", "u", "a", "r", "i", "u", "m">>,
        <<"d", "i", "s", "n", "e", "y">> >> ]

\* ACTIVITY_TEMPLATES (lines 20-77).  The source's 'Coffee at local caf..'
\* ends in two non-ASCII bytes; the entry is an opaque value here.
ACTIVITY_TEMPLATES ==
  [ beach |->
      [ arrival |-> << "Arrive at destination",
                       "Check into beachfront accommodation",
                       "Welcome drink and resort orientation" >>,
        morning |-> << "Beach relaxation",
                       "Swimming and sunbathing",
                       "Water sports activities",
                       "Beach volleyball" >>,
        afternoon |-> << "Snorkeling or diving",
                         "Beachside lunch",
                         "Spa and wellness treatments",
                         "Local market visit" >>,
        evening |-> << "Sunset viewing",
                       "Beachside dinner",
                       "Live music or entertainment",
                       "Night beach walk" >>,
        departure |-> << "Final beach morning",
                         "Souvenir shopping",
                         "Departure preparations",
                         "Check out and transfer" >> ],
    city |->
      [ arrival |-> << "Arrive in the city",
                       "Check into hotel",
                       "Initial city orientation walk" >>,
        morning |-> << "Historic district exploration",
                       "Famous landmarks tour",
                       "Museums and galleries",
                       "Local breakfast spots" >>,
        afternoon |-> << "Shopping districts",
                         "Cultural sites visit",
                         "Local cuisine lunch",
                         "Architectural tours" >>,
        evening |-> << "Dinner at local restaurant",
                       "Nightlife exploration",
                       "Theater or entertainment",
                       "City lights tour" >>,
        departure |-> << "Final city walk",
                         "Last-minute shopping",
                         "Coffee at local cafe",
                         "Departure to airport" >> ],
    mountain |->
      [ arrival |-> << "Arrive at mountain destination",
                       "Check into lodge",
                       "Equipment check and preparation" >>,
        morning |-> << "Hiking and trekking",
                       "Nature walks",
                       "Wildlife spotting",
                       "Photography sessions" >>,
        afternoon |-> << "Mountain climbing",
                         "Scenic viewpoints",
                         "Picnic lunch in nature",
                         "Adventure activities" >>,
        evening |-> << "Campfire and storytelling",
                       "Stargazing",
                       "Mountain lodge dinner",
                       "Rest and recovery" >>,
        departure |-> << "Final morning hike",
                         "Equipment return",
                         "Scenic drive back",
                         "Departure" >> ],
    cultural |->
      [ arrival |-> << "Arrive at cultural destination",
                       "Check into heritage hotel",
                       "Initial historical overview" >>,
        morning |-> << "Museums and galleries",
                       "Historical sites tour",
                       "Ancient monuments",
                       "Guided cultural walks" >>,
        afternoon |-> << "Local artisan workshops",
                         "Traditional performances",
                         "Heritage buildings",
                         "Cultural cuisine" >>,
        evening |-> << "Traditional dinner show",
                       "Local festivals (if available)",
                       "Cultural center visits",
                       "Evening prayers/ceremonies" >>,
        departure |-> << "Final museum visit",
                         "Cultural souvenir shopping",
                         "Traditional breakfast",
                         "Departure" >> ],
    adventure |->
      [ arrival |-> << "Arrive at adventure base",
                       "Equipment briefing",
                       "Safety orientation" >>,
        morning |-> << "Outdoor adventures",
                       "Wildlife safari",
                       "Rock climbing",
                       "River rafting" >>,
        afternoon |-> << "Extreme sports",
                         "Nature expeditions",
                         "Survival training",
                         "Photography tours" >>,
        evening |-> << "Campfire activities",
                       "Adventure stories",
                       "Outdoor dining",
                       "Night safaris" >>,
        departure |-> << "Final adventure activity",
                         "Equipment return",
                         "Group photos",
                         "Safe departure" >> ],
    business |->
      [ arrival |-> << "Arrive at destination",
                       "Check into business hotel",
                       "Conference registration" >>,
        morning |-> << "Business meetings",
                       "Conference sessions",
                       "Networking breakfast",
                       "Keynote presentations" >>,
        afternoon |-> << "Workshops and seminars",
                         "Business lunches",
                         "Client meetings",
                         "Trade show visits" >>,
        evening |-> << "Business dinners",
                       "Networking events",
                       "Industry meetups",
                       "Work preparation" >>,
        departure |-> << "Final meetings",
                         "Follow-up sessions",
                         "Business card exchange",
                         "Departure" >> ],
    romantic |->
      [ arrival |-> << "Romantic arrival",
                       "Check into romantic suite",
                       "Welcome champagne" >>,
        morning |-> << "Couples spa treatment",
                       "Romantic breakfast",
                       "Private tours",
                       "Photography session" >>,
        afternoon |-> << "Romantic lunch",
                         "Couples activities",
                         "Wine tasting",
                         "Scenic walks" >>,
        evening |-> << "Candlelit dinner",
                       "Sunset viewing",
                       "Dancing",
                       "Private entertainment" >>,
        departure |-> << "Romantic breakfast",
                         "Memory collection",
                         "Final romantic moments",
                         "Departure" >> ],
    family |->
      [ arrival |-> << "Family arrival",
                       "Check into family accommodation",
                       "Family orientation" >>,
        morning |-> << "Family attractions",
                       "Theme parks",
                       "Interactive museums",
                       "Educational tours" >>,
        afternoon |-> << "Family-friendly activities",
                         "Picnic lunch",
                         "Playgrounds and parks",
                         "Family games" >>,
        evening |-> << "Family dinner",
                       "Entertainment shows",
                       "Family bonding time",
                       "Early rest for kids" >>,
        departure |-> << "Final family activity",
                         "Souvenir shopping for kids",
                         "Family photos",
                         "Departure" >> ] ]

\* notes_map of get_day_notes (lines 141-182); the source's key 1 is the
\* field first here (a record's fields are names)
notes_map ==
  [ beach |->
      [ first |-> "Apply sunscreen and stay hydrated",
        middle |-> "Best time for water activities is morning",
        last |-> "Pack souvenirs and enjoy final beach time" ],
    city |->
      [ first |-> "Comfortable walking shoes recommended",
        middle |-> "Book popular attractions in advance",
        last |-> "Allow extra time for airport transfer" ],
    mountain |->
      [ first |-> "Check weather conditions and pack accordingly",
        middle |-> "Start early for best views and weather",
        last |-> "Ensure all equipment is returned" ],
    cultural |->
      [ first |-> "Respect local customs and dress codes",
        middle |-> "Photography may be restricted in some areas",
        last |-> "Visit gift shops for authentic souvenirs" ],
    adventure |->
      [ first |-> "Safety briefing is mandatory",
        middle |-> "Follow all safety guidelines",
        last |-> "Share your adventure stories" ],
    business |->
      [ first |-> "Confirm all meeting times and locations",
        middle |-> "Networking opportunities available",
        last |-> "Follow up on business connections made" ],
    romantic |->
      [ first |-> "Special romantic surprise planned",
        middle |-> "Perfect day for couples activities",
        last |-> "Create lasting memories together" ],
    family |->
      [ first |-> "Keep kids engaged with family activities",
        middle |-> "Balance fun with rest time",
        last |-> "Collect family photos and memories" ] ]

-----------------------------------------------------------------------------
(* classify_destination (lines 79-102).                                    *)

\* sum(1 for keyword in keywords if keyword in text)
score(keywords, text) ==
  Cardinality({i \in 1..Len(keywords) : In(keywords[i], text)})

\* The dict scores after the loop of lines 94-97 has handled the first n
\* archetypes, as the list of its items in insertion order: only an
\* archetype whose score is positive gets an entry.
RECURSIVE ScoresAfter(_, _)
ScoresAfter(n, text) ==
  IF n = 0 THEN <<>>
  ELSE LET dt == DeclarationOrder[n]
           sc == score(DESTINATION_KEYWORDS[dt], text)
           rest == ScoresAfter(n - 1, text)
       IN IF sc > 0 THEN Append(rest, <<dt, sc>>) ELSE rest

\* Better with the comparison not strict: among equal values the last wins.
Better_or_equal(item, best) == item[2] >= best[2]

\* A key replaces the best one so far only with a strictly larger value.
Better(item, best) == item[2] > best[2]

\* max(scores, key=scores.get) over the first n items: the first key, in
\* iteration order, that has the largest value
RECURSIVE MaxItem(_, _)
MaxItem(items, n) ==
  IF n = 1 THEN items[1]
  ELSE LET best == MaxItem(items, n - 1)
       IN IF Better(items[n], best) THEN items[n] ELSE best

\* SearchText without the call of lower()
SearchText_as_typed(destination, description) ==
  destination \o <<" ">> \o description

\* the text that is searched (line 91)
SearchText(destination, description) ==
  lower(destination \o <<" ">> \o description)

\* DefaultType as a value that is no table key
DefaultType_general == "general"

\* the value returned when nothing scored (line 102)
DefaultType == "city"

classify_destination(destination, description) ==
  LET text == SearchText(destination, description)
      scores == ScoresAfter(Len(DeclarationOrder), text)
  IN IF scores # <<>>
       THEN MaxItem(scores, Len(scores))[1]
       ELSE DefaultType

-----------------------------------------------------------------------------
(* generate_daily_activities (lines 104-136).                              *)

\* TemplatesGet with the first table entry as the default
TemplatesGet_beach(dt) ==
  IF dt \in DOMAIN ACTIVITY_TEMPLATES
    THEN ACTIVITY_TEMPLATES[dt]
    ELSE ACTIVITY_TEMPLATES["beach"]

\* cls.ACTIVITY_TEMPLATES.get(dest_type, cls.ACTIVITY_TEMPLATES['city'])
TemplatesGet(dt) ==
  IF dt \in DOMAIN ACTIVITY_TEMPLATES
    THEN ACTIVITY_TEMPLATES[dt]
    ELSE ACTIVITY_TEMPLATES["city"]

\* Limit without the slice
Limit_none(activities) == activities

\* activities[:4] (line 136)
Limit(activities) == Take(activities, 4)

\* the arrival-day branch (lines 123-125)
ArrivalDay(templates, total_days) ==
  Take(templates.arrival, 2)
    \o (IF total_days > 1 THEN Take(templates.evening, 1) ELSE <<>>)

\* DepartureDay with two morning entries, as on a middle day
DepartureDay_two_mornings(templates) ==
  Take(templates.morning, 2) \o templates.departure

\* the departure-day branch (lines 128-129)
DepartureDay(templates) ==
  Take(templates.morning, 1) \o templates.departure

\* MiddleDay with one morning entry, as on a departure day
MiddleDay_one_morning(templates) ==
  Take(templates.morning, 1) \o Take(templates.afternoon, 2)
    \o Take(templates.evening, 1)

\* the middle-day branch (lines 132-134)
MiddleDay(templates) ==
  Take(templates.morning, 2) \o Take(templates.afternoon, 2)
    \o Take(templates.evening, 1)

\* generate_daily_activities with the last-day test made before the
\* first-day test
generate_daily_activities_last_first(n, total_days, dt, date_str) ==
  LET templates == TemplatesGet(dt)
      activities ==
        IF n = total_days THEN DepartureDay(templates)
        ELSE IF n = 1 THEN ArrivalDay(templates, total_days)
        ELSE MiddleDay(templates)
  IN Limit(activities)

generate_daily_activities(n, total_days, dt, date_str) ==
  LET templates == TemplatesGet(dt)
      activities ==
        IF n = 1 THEN ArrivalDay(templates, total_days)
        ELSE IF n = total_days THEN DepartureDay(templates)
        ELSE MiddleDay(templates)
  IN Limit(activities)

-----------------------------------------------------------------------------
(* get_day_notes (lines 138-191).                                          *)

\* notes_map.get(dest_type, notes_map['city'])
NotesGet(dt) ==
  IF dt \in DOMAIN notes_map THEN notes_map[dt] ELSE notes_map["city"]

\* get_day_notes with the last-day test made before the first-day test
get_day_notes_last_first(n, total_days, dt) ==
  LET dest_notes == NotesGet(dt)
  IN IF n = total_days THEN dest_notes.last
     ELSE IF n = 1 THEN dest_notes.first
     ELSE dest_notes.middle

get_day_notes(n, total_days, dt) ==
  LET dest_notes == NotesGet(dt)
  IN IF n = 1 THEN dest_notes.first
     ELSE IF n = total_days THEN dest_notes.last
     ELSE dest_notes.middle

-----------------------------------------------------------------------------
(* Dates: date.strftime('%Y-%m-%d') and date + timedelta(days=1).           *)

DaysBeforeMonth == <<0, 31, 59, 90, 120, 151, 181, 212, 243, 273, 304, 334>>
DaysInMonth == <<31, 28, 31, 30, 31, 30, 31, 31, 30, 31, 30, 31>>

\* current_date.strftime('%Y-%m-%d') (lines 220 and 263): the year, month
\* and day of an ordinal, as the datetime module computes them
strftime(ordinal) ==
  LET n0 == ordinal - 1
      n400 == n0 \div 146097
      r400 == n0 % 146097
      n100 == r400 \div 36524
      r100 == r400 % 36524
      n4 == r100 \div 1461
      r4 == r100 % 1461
      n1 == r4 \div 365
      n == r4 % 365
      year == n400 * 400 + 1 + n100 * 100 + n4 * 4 + n1
  IN IF n1 = 4 \/ n100 = 4
       THEN <<year - 1, 12, 31>>
       ELSE LET leap == n1 = 3 /\ (n4 # 24 \/ n100 = 3)
                month0 == (n + 50) \div 32
                prec0 == DaysBeforeMonth[month0]
                           + (IF month0 > 2 /\ leap THEN 1 ELSE 0)
                month == IF prec0 > n THEN month0 - 1 ELSE month0
                prec == IF prec0 > n
                          THEN prec0 - (DaysInMonth[month]
                                 + (IF month = 2 /\ leap THEN 1 ELSE 0))
                          ELSE prec0
            IN <<year, month, n - prec + 1>>

\* _is_leap(year) of the datetime module
IsLeap(year) == year % 4 = 0 /\ (year % 100 # 0 \/ year % 400 = 0)

\* whether datetime.strptime(s, '%Y-%m-%d') accepts s: a year of 1..9999, a
\* month of 1..12 and a day the month has; otherwise it raises ValueError
\* (s is <<year, month, day>>; the empty text is <<>>)
IsDate(s) ==
  /\ Len(s) = 3
  /\ s[1] \in 1..9999
  /\ s[2] \in 1..12
  /\ s[3] \in 1..(DaysInMonth[s[2]] + (IF s[2] = 2 /\ IsLeap(s[1]) THEN 1 ELSE 0))

\* datetime.strptime(s, '%Y-%m-%d').date(), as an ordinal (_ymd2ord)
strptime(s) ==
  LET y == s[1] - 1
  IN (y * 365 + (y \div 4) - (y \div 100) + (y \div 400))
       + DaysBeforeMonth[s[2]]
       + (IF s[2] > 2 /\ IsLeap(s[1]) THEN 1 ELSE 0)
       + s[3]

\* DescriptionAndTitle without the title
DescriptionAndTitle_no_title(description, title) == description

\* f"{description} {title}" (line 213)
DescriptionAndTitle(description, title) == description \o <<" ">> \o title

\* AddDay that leaves the date as it is
AddDay_forgotten(date) == date

\* current_date += timedelta(days=1), when it does not raise
AddDay(date) == date + 1

\* current_date += timedelta(days=1) raises OverflowError ("date value out
\* of range") when the sum lies beyond date.max (lines 236 and 268)
AddDayOverflows(date) == date + 1 > DateMaxOrdinal

-----------------------------------------------------------------------------
(* The calls that are tried.                                               *)

\* "bali", "BALI", "Balikesir" with its dotless i, "paris", "Tokyo",
\* "rome", "zoom", "retreat", "new", "york", "resort", "mainland"
Words ==
  { <<"b", "a", "l", "i">>,
    <<"B", "A", "L", "I">>,
    <<"B", "a", "l", "i_dotless", "k", "e", "s", "i", "r">>,
    <<"p", "a", "r", "i", "s">>,
    <<"T", "o", "k", "y", "o">>,
    <<"r", "o", "m", "e">>,
    <<"z", "o", "o", "m">>,
    <<"r", "e", "t", "r", "e", "a", "t">>,
    <<"n", "e", "w">>,
    <<"y", "o", "r", "k">>,
    <<"r", "e", "s", "o", "r", "t">>,
    <<"m", "a", "i", "n", "l", "a", "n", "d">> }

\* the texts of at most n words, the words one space apart
RECURSIVE TextsOf(_)
TextsOf(n) ==
  IF n = 0 THEN {<<>>}
  ELSE LET shorter == TextsOf(n - 1)
       IN shorter \cup Words
            \cup {t \o <<" ">> \o w : t \in shorter \ {<<>>}, w \in Words}

Destinations == TextsOf(MaxWords)

\* "", "bali", "york", "ZOO"
Descriptions ==
  { <<>>,
    <<"b", "a", "l", "i">>,
    <<"y", "o", "r", "k">>,
    <<"Z", "O", "O">> }

\* "paris", "BALI retreat", "retreat"
TripDestinations ==
  { <<"p", "a", "r", "i", "s">>,
    <<"B", "A", "L", "I", " ", "r", "e", "t", "r", "e", "a", "t">>,
    <<"r", "e", "t", "r", "e", "a", "t">> }

\* "", "rome"
TripDescriptions == { <<>>, <<"r", "o", "m", "e">> }

\* "", "zoom"
TripTitles == { <<>>, <<"z", "o", "o", "m">> }

\* the eight table keys and two values that are no key
DestTypes ==
  {DeclarationOrder[i] : i \in 1..Len(DeclarationOrder)} \cup {"space", ""}

\* start dates: ordinary ones, and the last days a date can hold
StartDates ==
  (BaseDate..(BaseDate + 1))
    \cup ((DateMaxOrdinal - MaxDays + 1)..DateMaxOrdinal)

\* (start_date, end_date): trips of at most MaxDays days, and the pairs
\* with the end one day before the start
DatePairs ==
  UNION {{<<s, e>> : e \in (s - 1)..Min(s + MaxDays - 1, DateMaxOrdinal)} :
           s \in StartDates}

\* the rows of table users (models/user.py): an active user, an active
\* admin and a user whose is_active is false
InitialUsers ==
  (1 :> [id |-> 1, is_active |-> TRUE, is_admin |-> FALSE])
    @@ (2 :> [id |-> 2, is_active |-> TRUE, is_admin |-> TRUE])
    @@ (3 :> [id |-> 3, is_active |-> FALSE, is_admin |-> FALSE])

\* what a request carries as its JWT: the identity of a valid token, or 0
\* for a request without a valid token
Tokens == {0, 1, 2, 3}

\* the identity of a valid token whose user is not stored
Stranger == Cardinality(DOMAIN InitialUsers) + 1

\* date texts of a request body: the ISO text of a date, '' and '2024-02-30'
DateTexts(date) == {strftime(date), <<>>, <<2024, 2, 30>>}

\* the bodies POST /api/trips/generate-itinerary-preview is sent: every date
\* pair with both texts well formed, one pair more than a year apart, and
\* for one pair the texts that are empty or no date
PreviewDates ==
  {<<strftime(p[1]), strftime(p[2])>> : p \in DatePairs}
    \cup {<<strftime(BaseDate), strftime(BaseDate + LongTrip)>>}
    \cup (DateTexts(BaseDate) \X DateTexts(BaseDate + 1))

PreviewCalls ==
  {[fn |-> "preview_default_itinerary", token |-> k,
    start_date |-> p[1], end_date |-> p[2],
    destination |-> d, description |-> <<>>, title |-> t] :
     k \in {0, 1, 3}, p \in PreviewDates,
     d \in {<<>>, <<"r", "e", "t", "r", "e", "a", "t">>}, t \in TripTitles}

Calls ==
  PreviewCalls
  \cup
  [fn : {"classify_destination"},
   destination : Destinations, description : Descriptions]
  \cup
  [fn : {"generate_daily_activities", "get_day_notes"},
   day_num : 1..(MaxDays + 1), total_days : 1..MaxDays, dest_type : DestTypes]
  \cup
  {[fn |-> "generate_default_itinerary",
    start_date |-> p[1], end_date |-> p[2],
    destination |-> d, description |-> e, title |-> t] :
     p \in DatePairs, d \in TripDestinations,
     e \in TripDescriptions, t \in TripTitles}
  \cup
  {[fn |-> "generate_basic_itinerary",
    start_date |-> p[1], end_date |-> p[2]] : p \in DatePairs}

-----------------------------------------------------------------------------
(* The state machine: one call, from its arguments to its outcome.         *)

Init ==
  /\ call \in Calls
  /\ pc = "call"
  /\ duration = 0
  /\ dest_type = "None"
  /\ itinerary = <<>>
  /\ current_date = 0
  /\ day_num = 0
  /\ ret = <<>>
  /\ users = InitialUsers
  /\ trips = <<>>
  /\ rate_limit_storage = [identifier \in DOMAIN InitialUsers |-> <<>>]
  /\ heap = <<>>
  /\ thread = <<>>
  /\ clock = 0
  /\ granted = <<>>

\* validate_token as it would be without the test of is_active
validate_token_inactive(token) ==
  IF token \in DOMAIN users THEN token ELSE 0

\* AuthMiddleware.validate_token (lines 32-52): the user of the token when
\* the token is valid and names a stored user that is active, else 0 (an
\* error, and g.current_user is not set)
validate_token(token) ==
  IF token \in DOMAIN users /\ users[token].is_active THEN token ELSE 0

\* start_date and end_date as the generator receives them: its arguments,
\* which the preview route parses from the body (lines 324-325)
start_date ==
  IF call.fn = "preview_default_itinerary"
    THEN strptime(call.start_date) ELSE call.start_date

end_date ==
  IF call.fn = "preview_default_itinerary"
    THEN strptime(call.end_date) ELSE call.end_date

locals == <<duration, dest_type, itinerary, current_date, day_num>>

\* classify_destination(destination, description)
ClassifyDestination ==
  /\ pc = "call"
  /\ call.fn = "classify_destination"
  /\ ret' = classify_destination(call.destination, call.description)
  /\ pc' = "returned"
  /\ UNCHANGED <<call, locals, store, threads>>

\* generate_daily_activities(day_num, total_days, dest_type, date_str)
GenerateDailyActivities ==
  /\ pc = "call"
  /\ call.fn = "generate_daily_activities"
  /\ ret' = generate_daily_activities(call.day_num, call.total_days,
                                      call.dest_type, <<>>)
  /\ pc' = "returned"
  /\ UNCHANGED <<call, locals, store, threads>>

\* get_day_notes(day_num, total_days, dest_type)
GetDayNotes ==
  /\ pc = "call"
  /\ call.fn = "get_day_notes"
  /\ ret' = get_day_notes(call.day_num, call.total_days, call.dest_type)
  /\ pc' = "returned"
  /\ UNCHANGED <<call, locals, store, threads>>

\* generate_default_itinerary, lines 208-217: the duration, the
\* classification and the empty list
GenerateDefaultItinerary ==
  /\ \/ pc = "call" /\ call.fn = "generate_default_itinerary"
     \/ pc = "invoke" /\ call.fn = "preview_default_itinerary"
  /\ duration' = (end_date - start_date) + 1
  /\ dest_type' = classify_destination(
                    call.destination,
                    DescriptionAndTitle(call.description, call.title))
  /\ itinerary' = <<>>
  /\ current_date' = start_date
  /\ day_num' = 1
  /\ pc' = "loop"
  /\ UNCHANGED <<call, ret, store, threads>>

\* one pass of the loop of lines 219-236; the date's increment that ends
\* the pass raises OverflowError on date.max, which line 240 catches
LoopDay ==
  /\ pc = "loop"
  /\ day_num <= duration
  /\ LET date_str == strftime(current_date)
         activities == generate_daily_activities(day_num, duration,
                                                 dest_type, date_str)
         notes == get_day_notes(day_num, duration, dest_type)
         day_plan == [day |-> day_num, date |-> date_str,
                      activities |-> activities, notes |-> notes]
     IN itinerary' = Append(itinerary, day_plan)
  /\ IF AddDayOverflows(current_date)
       THEN pc' = "except" /\ UNCHANGED <<current_date, day_num>>
       ELSE /\ current_date' = AddDay(current_date)
            /\ day_num' = day_num + 1
            /\ pc' = "loop"
  /\ UNCHANGED <<call, duration, dest_type, ret, store, threads>>

\* return itinerary (line 238)
LoopReturn ==
  /\ pc = "loop"
  /\ day_num > duration
  /\ ret' = itinerary
  /\ pc' = "returned"
  /\ UNCHANGED <<call, locals, store, threads>>

\* lines 247-249 of generate_basic_itinerary
BasicStart ==
  /\ duration' = (end_date - start_date) + 1
  /\ itinerary' = <<>>
  /\ current_date' = start_date
  /\ day_num' = 1
  /\ pc' = "basic_loop"
  /\ UNCHANGED <<call, dest_type, ret, store, threads>>

\* except Exception: return cls.generate_basic_itinerary(start_date,
\* end_date) (lines 240-242)
Except ==
  /\ pc = "except"
  /\ BasicStart

\* generate_basic_itinerary(start_date, end_date), called directly
GenerateBasicItinerary ==
  /\ pc = "call"
  /\ call.fn = "generate_basic_itinerary"
  /\ BasicStart

\* the activities of one day of the basic itinerary (lines 254-259)
BasicActivities(n, total_days) ==
  IF n = 1
    THEN <<"Arrive at destination", "Check into accommodation",
           "Explore nearby area">>
  ELSE IF n = total_days
    THEN <<"Final sightseeing", "Pack and check out", "Departure">>
  ELSE <<"Morning sightseeing", "Lunch at local restaurant",
         "Afternoon activities", "Evening relaxation">>

\* f"Day {day_num} of your trip" (line 265)
BasicNotes(n) == <<"Day ", n, " of your trip">>

\* one pass of the loop of lines 251-268; nothing catches the
\* OverflowError of line 268, which leaves the call
BasicLoopDay ==
  /\ pc = "basic_loop"
  /\ day_num <= duration
  /\ itinerary' = Append(itinerary,
                    [day |-> day_num, date |-> strftime(current_date),
                     activities |-> BasicActivities(day_num, duration),
                     notes |-> BasicNotes(day_num)])
  /\ IF AddDayOverflows(current_date)
       THEN pc' = "raised" /\ UNCHANGED <<current_date, day_num>>
       ELSE /\ current_date' = AddDay(current_date)
            /\ day_num' = day_num + 1
            /\ pc' = "basic_loop"
  /\ UNCHANGED <<call, duration, dest_type, ret, store, threads>>

\* return itinerary (line 270)
BasicLoopReturn ==
  /\ pc = "basic_loop"
  /\ day_num > duration
  /\ ret' = itinerary
  /\ pc' = "returned"
  /\ UNCHANGED <<call, locals, store, threads>>

\* POST /api/trips/generate-itinerary-preview up to the generator's call
\* (routes/trips.py lines 308-328): require_auth, the three required
\* fields, the two date formats
PreviewDefaultItinerary ==
  /\ pc = "call"
  /\ call.fn = "preview_default_itinerary"
  /\ IF validate_token(call.token) = 0
       THEN ret' = [status |-> 401] /\ pc' = "responded"
     ELSE IF call.destination = <<>> \/ call.start_date = <<>>
               \/ call.end_date = <<>>
       THEN ret' = [status |-> 400] /\ pc' = "responded"
     ELSE IF ~IsDate(call.start_date) \/ ~IsDate(call.end_date)
       THEN ret' = [status |-> 400] /\ pc' = "responded"
     ELSE ret' = ret /\ pc' = "invoke"
  /\ UNCHANGED <<call, locals, store, threads>>

\* the preview's response (lines 338-353): 200 with what the generator
\* returned, or 500 when the generator raised
PreviewRespond ==
  /\ call.fn = "preview_default_itinerary"
  /\ \/ /\ pc = "returned"
        /\ ret' = [status |-> 200,
                   preview_itinerary |-> ret,
                   destination_type |->
                     classify_destination(call.destination, call.description),
                   duration_days |-> (end_date - start_date) + 1]
     \/ /\ pc = "raised"
        /\ ret' = [status |-> 500]
  /\ pc' = "responded"
  /\ UNCHANGED <<call, locals, store, threads>>

Next ==
  \/ PreviewDefaultItinerary
  \/ PreviewRespond
  \/ ClassifyDestination
  \/ GenerateDailyActivities
  \/ GetDayNotes
  \/ GenerateDefaultItinerary
  \/ LoopDay
  \/ LoopReturn
  \/ Except
  \/ GenerateBasicItinerary
  \/ BasicLoopDay
  \/ BasicLoopReturn

Spec == Init /\ [][Next]_vars

-----------------------------------------------------------------------------
(* The trips routes (routes/trips.py) over the tables and the limiter.     *)
(* An optional JSON value is <<>> when it is absent or null and <<v>> when *)
(* it is v.  Every request of a run arrives at the time now.  The columns  *)
(* description, created_at and updated_at, which no branch reads, are left *)
(* out of a row; created_at orders the rows as their ids do.               *)

\* @rate_limit(max_requests=20, window_seconds=3600, per='user') of create_trip
CreateMaxRequests == 20
CreateWindowSeconds == 3600

\* str.strip() (lines 93-96), for texts padded with spaces
RECURSIVE lstrip(_)
lstrip(s) == IF s # <<>> /\ Head(s) = " " THEN lstrip(Tail(s)) ELSE s

RECURSIVE rstrip(_)
rstrip(s) ==
  IF s # <<>> /\ s[Len(s)] = " " THEN rstrip(SubSeq(s, 1, Len(s) - 1)) ELSE s

strip(s) == rstrip(lstrip(s))

\* the ticks of a second: time.time() is a float, and the model's times are
\* whole numbers of ticks
TicksPerSecond == 2

\* the history after the popleft loop of rate_limit_check (lines 84-86)
RECURSIVE Pruned(_, _)
Pruned(request_history, window_start) ==
  IF request_history # <<>> /\ Head(request_history) < window_start
    THEN Pruned(Tail(request_history), window_start)
    ELSE request_history

\* int(x) of a time x >= 0 (lines 91 and 98): its whole seconds
int(time) == time \div TicksPerSecond

\* rate_limit_check that denies only above the limit
rate_limit_check_above(request_history, time, max_requests, window_seconds) ==
  LET history ==
        Pruned(request_history, time - window_seconds * TicksPerSecond)
  IN IF Len(history) > max_requests
       THEN [is_allowed |-> FALSE, remaining |-> 0,
             reset_time |->
               int(history[1] + window_seconds * TicksPerSecond),
             history |-> history]
       ELSE [is_allowed |-> TRUE,
             remaining |-> max_requests - (Len(history) + 1),
             reset_time |-> int(time + window_seconds * TicksPerSecond),
             history |-> Append(history, time)]

\* AuthMiddleware.rate_limit_check (lines 65-100) called at the time given
\* in ticks: the verdict, and the history it leaves
rate_limit_check(request_history, time, max_requests, window_seconds) ==
  LET history ==
        Pruned(request_history, time - window_seconds * TicksPerSecond)
  IN IF Len(history) >= max_requests
       THEN [is_allowed |-> FALSE, remaining |-> 0,
             reset_time |->
               int(history[1] + window_seconds * TicksPerSecond),
             history |-> history]
       ELSE [is_allowed |-> TRUE,
             remaining |-> max_requests - (Len(history) + 1),
             reset_time |-> int(time + window_seconds * TicksPerSecond),
             history |-> Append(history, time)]

\* validate_dates that rejects only an end before the start
validate_dates_same_day(start, end) == ~(start > end)

\* Trip.validate_dates (models/trip.py lines 98-103): is_valid
validate_dates(start, end) == ~(start >= end)

\* Trip.validate_coordinates (models/trip.py lines 105-120): is_valid
validate_coordinates(latitude, longitude) ==
  /\ latitude # <<>> => ~(latitude[1] < -90 \/ latitude[1] > 90)
  /\ longitude # <<>> => ~(longitude[1] < -180 \/ longitude[1] > 180)

\* the id SQLite gives a new row of an INTEGER PRIMARY KEY column: one more
\* than the largest id stored (app.py line 18: sqlite:///planventure.db)
NewId(table) ==
  IF DOMAIN table = {} THEN 1
  ELSE (CHOOSE i \in DOMAIN table : \A j \in DOMAIN table : j <= i) + 1

\* table with the row added (db.session.add, commit)
Inserted(table, row) ==
  [i \in DOMAIN table \cup {row.id} |-> IF i = row.id THEN row ELSE table[i]]

\* table without the row of id (db.session.delete, commit)
Deleted(table, id) == [i \in DOMAIN table \ {id} |-> table[i]]

\* lookup that takes the trip of any owner
FindTrip_any_owner(trip_id, user_id) ==
  IF trip_id \in DOMAIN trips THEN trip_id ELSE 0

\* Trip.query.filter_by(id=trip_id, user_id=current_user.id).first()
\* (line 181): the id found, 0 for None
FindTrip(trip_id, user_id) ==
  IF trip_id \in DOMAIN trips /\ trips[trip_id].user_id = user_id
    THEN trip_id ELSE 0

\* the fields of line 191 and user_id
UpdatableFields_with_owner ==
  {"title", "destination", "start_date", "end_date", "budget", "status",
   "latitude", "longitude", "itinerary", "user_id"}

\* the fields PUT may set (line 191), description left out
UpdatableFields ==
  {"title", "destination", "start_date", "end_date", "budget", "status",
   "latitude", "longitude", "itinerary"}

\* the row after the setattr loop of lines 191-193
Updated(row, data) ==
  [f \in DOMAIN row |->
     IF f \in DOMAIN data /\ f \in UpdatableFields THEN data[f] ELSE row[f]]

\* whether db.session.commit() of the update raises: the Date columns of
\* SQLite take only date objects, which no JSON value is
CommitRaises(data) ==
  (DOMAIN data \cap UpdatableFields) \cap {"start_date", "end_date"} # {}

\* the filter open to everybody
MayViewTripsOf_anyone(current_user_id, user_id) == TRUE

\* lines 26-34 of get_trips: the caller's own id, or an admin
MayViewTripsOf(current_user_id, user_id) ==
  \/ current_user_id = user_id
  \/ /\ current_user_id \in DOMAIN users
     /\ users[current_user_id].is_admin

\* the ids of a set, newest first (order_by(Trip.created_at.desc()))
RECURSIVE NewestFirst(_)
NewestFirst(ids) ==
  IF ids = {} THEN <<>>
  ELSE LET newest == CHOOSE i \in ids : \A j \in ids : j <= i
       IN <<newest>> \o NewestFirst(ids \ {newest})

\* query.paginate(page, per_page, error_out=False).items
Paginate(rows, page, per_page) ==
  SubSeq(rows, (page - 1) * per_page + 1, Min(page * per_page, Len(rows)))

\* the time of the requests of a run (time.time())
now == 0
\* most trips stored at once
MaxTrips == 2
\* most requests a user's history grows by from empty
MaxCreateCalls == 2

\* a body create_trip accepts
CreateBody ==
  [title |-> <<"A">>, destination |-> <<"p", "a", "r", "i", "s">>,
   start_date |-> strftime(BaseDate), end_date |-> strftime(BaseDate + 1),
   latitude |-> <<>>, longitude |-> <<>>, budget |-> <<>>,
   itinerary |-> "None"]

\* the bodies POST /api/trips/ is sent: the one above, and the ones that
\* differ from it in one field (itinerary "text" is a str that is no JSON)
CreateBodies ==
  {CreateBody,
   [CreateBody EXCEPT !.title = <<>>],
   [CreateBody EXCEPT !.title = <<" ", " ">>],
   [CreateBody EXCEPT !.end_date = <<2024, 2, 30>>],
   [CreateBody EXCEPT !.end_date = strftime(BaseDate)],
   [CreateBody EXCEPT !.end_date = strftime(BaseDate - 1)],
   [CreateBody EXCEPT !.budget = <<10>>],
   [CreateBody EXCEPT !.budget = <<-1>>],
   [CreateBody EXCEPT !.latitude = <<91>>],
   [CreateBody EXCEPT !.latitude = <<45>>, !.longitude = <<-181>>],
   [CreateBody EXCEPT !.itinerary = "text"]}

CreateCalls ==
  {[fn |-> "create_trip", token |-> k, data |-> b] :
     k \in {1, 2}, b \in CreateBodies}
    \cup {[fn |-> "create_trip", token |-> k, data |-> CreateBody] :
            k \in {0, 3, Stranger}}

\* the bodies PUT /api/trips/<trip_id> is sent; <<>> is the empty object
UpdateBodies ==
  {<<>>,
   [title |-> <<"B">>],
   [budget |-> <<-1>>],
   [user_id |-> 2],
   [title |-> <<"B">>, start_date |-> strftime(BaseDate + 1)]}

HandleCalls ==
  {[fn |-> "handle_trip", token |-> k, trip_id |-> i, method |-> m,
    data |-> <<>>] :
     k \in {0, 1, 2}, i \in 1..MaxTrips, m \in {"GET", "DELETE"}}
  \cup
  {[fn |-> "handle_trip", token |-> k, trip_id |-> i, method |-> "PUT",
    data |-> b] :
     k \in {1, 2}, i \in 1..MaxTrips, b \in UpdateBodies}

\* the query strings GET /api/trips/ is sent; user_id 0, status '' and
\* destination '' are the absent parameters
NoQuery ==
  [user_id |-> 0, status |-> "", destination |-> <<>>, page |-> 1,
   per_page |-> 10]

Queries ==
  {[NoQuery EXCEPT !.status = "active"],
   [NoQuery EXCEPT !.destination = <<"P", "A", "R">>],
   [NoQuery EXCEPT !.page = 2, !.per_page = 1]}

GetCalls ==
  {[fn |-> "get_trips", token |-> k,
    args |-> [NoQuery EXCEPT !.user_id = u]] : k \in Tokens, u \in {0, 1, 2}}
    \cup {[fn |-> "get_trips", token |-> k, args |-> q] :
            k \in {0, 1}, q \in Queries}

\* the limiter's memory of a user: nothing, or one request less than the
\* limit, all at the time now
Histories == {<<>>, [i \in 1..(CreateMaxRequests - 1) |-> now]}

TripsInit ==
  /\ call = [fn |-> "none"]
  /\ pc = "ready"
  /\ duration = 0
  /\ dest_type = "None"
  /\ itinerary = <<>>
  /\ current_date = 0
  /\ day_num = 0
  /\ ret = <<>>
  /\ users = InitialUsers
  /\ trips = <<>>
  /\ rate_limit_storage \in [DOMAIN InitialUsers -> Histories]
  /\ rate_limit_storage[2] = <<>>
  /\ rate_limit_storage[3] = <<>>
  /\ heap = <<>>
  /\ thread = <<>>
  /\ clock = 0
  /\ granted = <<>>

\* POST /api/trips/ (lines 83-173) behind require_auth, rate_limit and
\* validate_json_request
CreateTrip ==
  /\ pc \in {"ready", "responded"}
  /\ Cardinality(DOMAIN trips) < MaxTrips
  /\ \E request \in CreateCalls :
       LET user == validate_token(request.token)
           data == request.data
           limit == rate_limit_check(rate_limit_storage[user], now,
                                     CreateMaxRequests, CreateWindowSeconds)
           row == [id |-> NewId(trips), user_id |-> user,
                   title |-> strip(data.title),
                   destination |-> strip(data.destination),
                   start_date |-> strptime(data.start_date),
                   end_date |-> strptime(data.end_date),
                   latitude |-> data.latitude,
                   longitude |-> data.longitude,
                   budget |-> data.budget,
                   status |-> "planned",
                   itinerary |-> "None"]
       IN /\ call' = request
          /\ IF user = 0
               THEN ret' = [status |-> 401] /\ UNCHANGED store
             ELSE
               /\ \/ Len(rate_limit_storage[user]) < MaxCreateCalls
                  \/ Len(rate_limit_storage[user]) >= CreateMaxRequests - 1
               /\ rate_limit_storage' =
                    [rate_limit_storage EXCEPT ![user] = limit.history]
               /\ users' = users
               /\ IF ~limit.is_allowed
                    THEN ret' = [status |-> 429] /\ trips' = trips
                  ELSE IF \/ data.title = <<>> \/ data.destination = <<>>
                          \/ data.start_date = <<>> \/ data.end_date = <<>>
                    THEN ret' = [status |-> 400] /\ trips' = trips
                  ELSE IF strip(data.title) = <<>>
                            \/ strip(data.destination) = <<>>
                    THEN ret' = [status |-> 400] /\ trips' = trips
                  ELSE IF ~IsDate(data.start_date) \/ ~IsDate(data.end_date)
                    THEN ret' = [status |-> 400] /\ trips' = trips
                  ELSE IF ~validate_dates(strptime(data.start_date),
                                          strptime(data.end_date))
                    THEN ret' = [status |-> 400] /\ trips' = trips
                  ELSE IF /\ data.latitude # <<>> \/ data.longitude # <<>>
                          /\ ~validate_coordinates(data.latitude,
                                                   data.longitude)
                    THEN ret' = [status |-> 400] /\ trips' = trips
                  ELSE IF data.budget # <<>> /\ data.budget[1] < 0
                    THEN ret' = [status |-> 400] /\ trips' = trips
                  ELSE IF data.itinerary = "text"
                    THEN ret' = [status |-> 500] /\ trips' = trips
                  ELSE /\ trips' = Inserted(trips, row)
                       /\ ret' = [status |-> 201, trip |-> row]
  /\ pc' = "responded"
  /\ UNCHANGED <<locals, threads>>

\* GET, PUT and DELETE /api/trips/<trip_id> (lines 175-215) behind
\* require_auth
HandleTrip ==
  /\ pc \in {"ready", "responded"}
  /\ \E request \in HandleCalls :
       LET user == validate_token(request.token)
           found == FindTrip(request.trip_id, user)
       IN /\ call' = request
          /\ IF user = 0
               THEN ret' = [status |-> 401] /\ trips' = trips
             ELSE IF found = 0
               THEN ret' = [status |-> 404] /\ trips' = trips
             ELSE IF request.method = "GET"
               THEN ret' = [status |-> 200, trip |-> trips[found]]
                    /\ trips' = trips
             ELSE IF request.method = "PUT"
               THEN IF DOMAIN request.data = {}
                      THEN ret' = [status |-> 400] /\ trips' = trips
                    ELSE IF CommitRaises(request.data)
                      THEN ret' = [status |-> 500] /\ trips' = trips
                    ELSE LET row == Updated(trips[found], request.data)
                         IN /\ trips' = [trips EXCEPT ![found] = row]
                            /\ ret' = [status |-> 200, trip |-> row]
             ELSE /\ trips' = Deleted(trips, found)
                  /\ ret' = [status |-> 200]
  /\ pc' = "responded"
  /\ UNCHANGED <<locals, users, rate_limit_storage, threads>>

\* GET /api/trips/ (lines 10-81) behind optional_auth
GetTrips ==
  /\ pc \in {"ready", "responded"}
  /\ \E request \in GetCalls :
       LET args == request.args
           current_user == validate_token(request.token)
           current_user_id == request.token
           owner == IF args.user_id # 0 THEN args.user_id ELSE current_user
           ids == {i \in DOMAIN trips :
                     /\ trips[i].user_id = owner
                     /\ args.status # "" => trips[i].status = args.status
                     /\ args.destination # <<>> =>
                          In(lower(args.destination),
                             lower(trips[i].destination))}
           rows == [k \in 1..Cardinality(ids) |-> trips[NewestFirst(ids)[k]]]
       IN /\ call' = request
          /\ IF args.user_id # 0
                  /\ ~MayViewTripsOf(current_user_id, args.user_id)
               THEN ret' = [status |-> 403]
             ELSE IF args.user_id = 0 /\ current_user = 0
               THEN ret' = [status |-> 200, trips |-> <<>>, total |-> 0]
             ELSE ret' = [status |-> 200,
                          trips |-> Paginate(rows, args.page, args.per_page),
                          total |-> Cardinality(ids)]
  /\ pc' = "responded"
  /\ UNCHANGED <<locals, store, threads>>

\* AuthMiddleware.check_admin_permission (lines 54-63) of a user that
\* validate_token returned
check_admin_permission(user) == users[user].is_admin

\* require_auth (lines 104-129): the status the decorator answers with, 0
\* when it calls the handler
require_auth(token) ==
  IF validate_token(token) = 0 THEN 401 ELSE 0

\* require_admin (lines 131-161), likewise
require_admin(token) ==
  IF validate_token(token) = 0 THEN 401
  ELSE IF ~check_admin_permission(validate_token(token)) THEN 403
  ELSE 0

\* the requests GET /api/protected/user-only and /admin-only are sent
ProtectedCalls ==
  {[fn |-> f, token |-> k] :
     f \in {"user_only_route", "admin_only_route"},
     k \in {0, 1, 2, 3, Stranger}}

\* GET /api/protected/user-only (routes/protected.py lines 6-13)
UserOnlyRoute ==
  /\ pc \in {"ready", "responded"}
  /\ \E request \in ProtectedCalls :
       /\ request.fn = "user_only_route"
       /\ call' = request
       /\ ret' = IF require_auth(request.token) # 0
                   THEN [status |-> require_auth(request.token)]
                   ELSE [status |-> 200, user |-> request.token]
  /\ pc' = "responded"
  /\ UNCHANGED <<locals, store, threads>>

\* GET /api/protected/admin-only (routes/protected.py lines 15-22)
AdminOnlyRoute ==
  /\ pc \in {"ready", "responded"}
  /\ \E request \in ProtectedCalls :
       /\ request.fn = "admin_only_route"
       /\ call' = request
       /\ ret' = IF require_admin(request.token) # 0
                   THEN [status |-> require_admin(request.token)]
                   ELSE [status |-> 200, user |-> request.token]
  /\ pc' = "responded"
  /\ UNCHANGED <<locals, store, threads>>

\* the requests POST /api/trips/<trip_id>/generate-itinerary is sent
GenerateItineraryCalls ==
  {[fn |-> "generate_itinerary", token |-> k, trip_id |-> i,
    overwrite |-> o] :
     k \in {1, 2}, i \in 1..MaxTrips, o \in BOOLEAN}

\* POST /api/trips/<trip_id>/generate-itinerary (lines 262-306) behind
\* require_auth.  Line 276 calls trip.generate_default_itinerary(), a method
\* models/trip.py does not define: the AttributeError is caught by the
\* except of lines 301-306 (rollback, 500), and lines 278-299 never run.
GenerateItineraryRoute ==
  /\ pc \in {"ready", "responded"}
  /\ \E request \in GenerateItineraryCalls :
       LET user == validate_token(request.token)
       IN /\ call' = request
          /\ ret' = IF user = 0 THEN [status |-> 401]
                    ELSE IF request.trip_id \notin DOMAIN trips
                      THEN [status |-> 404]
                    ELSE IF trips[request.trip_id].user_id # user
                              /\ ~users[user].is_admin
                      THEN [status |-> 403]
                    ELSE [status |-> 500]
  /\ pc' = "responded"
  /\ UNCHANGED <<locals, store, threads>>

TripsNext ==
  \/ CreateTrip
  \/ HandleTrip
  \/ GetTrips
  \/ UserOnlyRoute
  \/ AdminOnlyRoute
  \/ GenerateItineraryRoute

TripsSpec == TripsInit /\ [][TripsNext]_vars

-----------------------------------------------------------------------------
(* Threads that call the generator at the same time.  A Python list is an  *)
(* object: heap maps the address of a list to its elements.  The lists of  *)
(* ACTIVITY_TEMPLATES are objects of the class, shared by every thread; a  *)
(* step of a thread is one statement on lists of generate_daily_activities *)
(* or the thread-local statements between two of them.  The lists of       *)
(* DESTINATION_KEYWORDS are only iterated (lines 94-95) and the dict of     *)
(* get_day_notes is built anew by every call (line 140).                   *)

\* the threads that run
NumThreads == 2
\* longest trip, in days, a thread generates
ConcDays == 3
\* most returned lists the callers change
MaxMutations == 1

Threads == 1..NumThreads

Slots == <<"arrival", "morning", "afternoon", "evening", "departure">>

\* the position of x in seq
IndexOf(seq, x) == CHOOSE i \in 1..Len(seq) : seq[i] = x

\* the address of the list ACTIVITY_TEMPLATES[archetype][slot]
TableAddress(archetype, slot) ==
  10 * IndexOf(DeclarationOrder, archetype) + IndexOf(Slots, slot)

TableAddresses ==
  {TableAddress(DeclarationOrder[i], Slots[j]) :
     i \in 1..Len(DeclarationOrder), j \in 1..Len(Slots)}

\* the class attribute as it is when the module is loaded
TableHeap ==
  [address \in TableAddresses |->
     ACTIVITY_TEMPLATES[DeclarationOrder[address \div 10]][Slots[address % 10]]]

\* one list for all threads
FreshList_shared(t, serial) == 100

\* the address of the serial-th list a thread creates ([] of line 118, the
\* slice of line 136): an object no other statement holds
FreshList(t, serial) == 100 * t + serial

\* the key of ACTIVITY_TEMPLATES that line 119 reads for dest_type
TemplatesKey(dt) == IF dt \in DOMAIN ACTIVITY_TEMPLATES THEN dt ELSE "city"

\* the extend statements of a day, in order (lines 121-134): the list read
\* and the slice taken of it, <<>> for no slice
ExtendPlan(n, total_days) ==
  IF n = 1
    THEN <<[slot |-> "arrival", slice |-> <<2>>]>>
           \o (IF total_days > 1
                 THEN <<[slot |-> "evening", slice |-> <<1>>]>> ELSE <<>>)
  ELSE IF n = total_days
    THEN <<[slot |-> "morning", slice |-> <<1>>],
           [slot |-> "departure", slice |-> <<>>]>>
  ELSE <<[slot |-> "morning", slice |-> <<2>>],
         [slot |-> "afternoon", slice |-> <<2>>],
         [slot |-> "evening", slice |-> <<1>>]>>

\* the calls of the threads: trips of 1..ConcDays days to a city or a
\* beach, and a classification
ConcCalls ==
  {[fn |-> "generate_default_itinerary",
    start_date |-> BaseDate, end_date |-> BaseDate + (n - 1),
    destination |-> d, description |-> <<>>, title |-> <<>>] :
     n \in 1..ConcDays,
     d \in {<<"p", "a", "r", "i", "s">>,
            <<"B", "A", "L", "I", " ", "r", "e", "t", "r", "e", "a", "t">>}}
  \cup
  {[fn |-> "classify_destination",
    destination |-> <<"p", "a", "r", "i", "s">>, description |-> <<>>]}

ConcInit ==
  /\ call = [fn |-> "none"]
  /\ pc = "threads"
  /\ duration = 0
  /\ dest_type = "None"
  /\ itinerary = <<>>
  /\ current_date = 0
  /\ day_num = 0
  /\ ret = <<>>
  /\ users = InitialUsers
  /\ trips = <<>>
  /\ rate_limit_storage = [identifier \in DOMAIN InitialUsers |-> <<>>]
  /\ heap = TableHeap
  /\ clock = 0
  /\ granted = <<>>
  /\ \E calls \in [Threads -> ConcCalls] :
       thread = [t \in Threads |->
                   [call |-> calls[t], pc |-> "call", duration |-> 0,
                    dest_type |-> "None", itinerary |-> <<>>,
                    current_date |-> 0, day_num |-> 0, activities |-> 0,
                    plan |-> <<>>, allocated |-> 0, ret |-> <<>>]]

\* what the threads leave alone
sequential ==
  <<call, pc, duration, dest_type, itinerary, current_date, day_num, ret,
    store, limiter>>

\* classify_destination in thread t
ThreadClassify(t) ==
  /\ thread[t].pc = "call"
  /\ thread[t].call.fn = "classify_destination"
  /\ thread' = [thread EXCEPT
       ![t].ret = classify_destination(thread[t].call.destination,
                                       thread[t].call.description),
       ![t].pc = "returned"]
  /\ UNCHANGED <<heap, sequential>>

\* lines 208-217 of generate_default_itinerary in thread t
ThreadStart(t) ==
  /\ thread[t].pc = "call"
  /\ thread[t].call.fn = "generate_default_itinerary"
  /\ thread' = [thread EXCEPT
       ![t].duration =
          (thread[t].call.end_date - thread[t].call.start_date) + 1,
       ![t].dest_type =
          classify_destination(
            thread[t].call.destination,
            DescriptionAndTitle(thread[t].call.description,
                                thread[t].call.title)),
       ![t].itinerary = <<>>,
       ![t].current_date = thread[t].call.start_date,
       ![t].day_num = 1,
       ![t].pc = "loop"]
  /\ UNCHANGED <<heap, sequential>>

\* the call of line 221 up to activities = [] (line 118)
ThreadNewList(t) ==
  /\ thread[t].pc = "loop"
  /\ thread[t].day_num <= thread[t].duration
  /\ LET address == FreshList(t, thread[t].allocated + 1)
     IN /\ heap' = [a \in DOMAIN heap \cup {address} |->
                      IF a = address THEN <<>> ELSE heap[a]]
        /\ thread' = [thread EXCEPT
             ![t].activities = address,
             ![t].allocated = thread[t].allocated + 1,
             ![t].plan = ExtendPlan(thread[t].day_num, thread[t].duration),
             ![t].pc = "extend"]
  /\ UNCHANGED sequential

\* one activities.extend(templates[slot][:n]) (lines 123-134)
ThreadExtend(t) ==
  /\ thread[t].pc = "extend"
  /\ thread[t].plan # <<>>
  /\ LET step == Head(thread[t].plan)
         source == heap[TableAddress(TemplatesKey(thread[t].dest_type),
                                     step.slot)]
         items == IF step.slice = <<>>
                    THEN source ELSE Take(source, step.slice[1])
     IN heap' = [heap EXCEPT ![thread[t].activities] = @ \o items]
  /\ thread' = [thread EXCEPT ![t].plan = Tail(thread[t].plan)]
  /\ UNCHANGED sequential

\* return activities[:4] (line 136), and the rest of the loop's pass
\* (lines 222-236)
ThreadSlice(t) ==
  /\ thread[t].pc = "extend"
  /\ thread[t].plan = <<>>
  /\ LET address == FreshList(t, thread[t].allocated + 1)
         day_plan ==
           [day |-> thread[t].day_num,
            date |-> strftime(thread[t].current_date),
            activities |-> address,
            notes |-> get_day_notes(thread[t].day_num, thread[t].duration,
                                    thread[t].dest_type)]
     IN /\ heap' = [a \in DOMAIN heap \cup {address} |->
                      IF a = address
                        THEN Limit(heap[thread[t].activities]) ELSE heap[a]]
        /\ thread' = [thread EXCEPT
             ![t].allocated = thread[t].allocated + 1,
             ![t].itinerary = Append(thread[t].itinerary, day_plan),
             ![t].current_date = AddDay(thread[t].current_date),
             ![t].day_num = thread[t].day_num + 1,
             ![t].pc = "loop"]
  /\ UNCHANGED sequential

\* return itinerary (line 238): ret is what the caller receives, list by
\* list
ThreadReturn(t) ==
  /\ thread[t].pc = "loop"
  /\ thread[t].day_num > thread[t].duration
  /\ thread' = [thread EXCEPT
       ![t].ret = [i \in 1..Len(thread[t].itinerary) |->
                     [thread[t].itinerary[i] EXCEPT
                        !.activities = heap[thread[t].itinerary[i].activities]]],
       ![t].pc = "returned"]
  /\ UNCHANGED <<heap, sequential>>

\* the lists of activities the callers hold
ReturnedLists ==
  UNION {{thread[t].itinerary[i].activities :
            i \in 1..Len(thread[t].itinerary)} :
           t \in {u \in Threads :
                    /\ thread[u].pc = "returned"
                    /\ thread[u].call.fn = "generate_default_itinerary"}}

\* a caller appends to a list of activities it was returned
Mutate ==
  /\ Cardinality({a \in ReturnedLists :
                    \E k \in 1..Len(heap[a]) : heap[a][k] = "Go home"})
       < MaxMutations
  /\ \E address \in ReturnedLists :
       heap' = [heap EXCEPT ![address] = Append(@, "Go home")]
  /\ UNCHANGED <<thread, sequential>>

ConcNext ==
  \/ \E t \in Threads : ThreadClassify(t)
  \/ \E t \in Threads : ThreadStart(t)
  \/ \E t \in Threads : ThreadNewList(t)
  \/ \E t \in Threads : ThreadExtend(t)
  \/ \E t \in Threads : ThreadSlice(t)
  \/ \E t \in Threads : ThreadReturn(t)
  \/ Mutate

ConcSpec == ConcInit /\ [][ConcNext]_vars

-----------------------------------------------------------------------------
(* The limiter alone: calls of AuthMiddleware.rate_limit_check, one after  *)
(* the other, for one identifier and with one max_requests and one         *)
(* window_seconds, while time passes.                                      *)

\* the last tick of the clock
MaxClock == 7

\* the limits and the windows (in seconds) of the calls
LimiterCalls ==
  {[fn |-> "rate_limit_check", identifier |-> 1, max_requests |-> m,
    window_seconds |-> w] : m \in {1, 2, 3}, w \in {1, 2}}

LimiterInit ==
  /\ call \in LimiterCalls
  /\ pc = "ready"
  /\ duration = 0
  /\ dest_type = "None"
  /\ itinerary = <<>>
  /\ current_date = 0
  /\ day_num = 0
  /\ ret = <<>>
  /\ users = InitialUsers
  /\ trips = <<>>
  /\ rate_limit_storage = [identifier \in DOMAIN InitialUsers |-> <<>>]
  /\ heap = <<>>
  /\ thread = <<>>
  /\ clock = 0
  /\ granted = <<>>

\* time passes between two calls
Tick ==
  /\ clock < MaxClock
  /\ clock' = clock + 1
  /\ UNCHANGED <<call, pc, locals, ret, store, heap, thread, granted>>

\* one call of rate_limit_check (lines 65-100), at the time of the clock
RateLimitCheck ==
  /\ pc \in {"ready", "returned"}
  /\ LET limit == rate_limit_check(rate_limit_storage[call.identifier],
                                   clock, call.max_requests,
                                   call.window_seconds)
     IN /\ rate_limit_storage' =
             [rate_limit_storage EXCEPT ![call.identifier] = limit.history]
        /\ ret' = [is_allowed |-> limit.is_allowed,
                   remaining |-> limit.remaining,
                   reset_time |-> limit.reset_time]
        /\ granted' = IF limit.is_allowed
                        THEN Append(granted, clock) ELSE granted
  /\ pc' = "returned"
  /\ UNCHANGED <<call, locals, users, trips, heap, thread, clock>>

LimiterNext ==
  \/ Tick
  \/ RateLimitCheck

LimiterSpec == LimiterInit /\ [][LimiterNext]_vars

-----------------------------------------------------------------------------
(* Request threads that call rate_limit_check at the same time for one     *)
(* identifier (app.run serves each request in a thread of its own, and     *)
(* _rate_limit_storage is an attribute of the class).  A step of a thread  *)
(* is one expression or statement on the deque of the identifier.          *)

\* the last tick of the clock while the threads run
RaceClock == 3

\* the limits and the window of the threads' calls
RaceCalls ==
  {c \in LimiterCalls : c.max_requests \in {1, 2} /\ c.window_seconds = 1}

\* the deque of the identifier when the threads start: empty, or holding a
\* call allowed at the time 0
RaceHistories == {<<>>, <<0>>}

RaceInit ==
  /\ call \in RaceCalls
  /\ pc = "threads"
  /\ duration = 0
  /\ dest_type = "None"
  /\ itinerary = <<>>
  /\ current_date = 0
  /\ day_num = 0
  /\ ret = <<>>
  /\ users = InitialUsers
  /\ trips = <<>>
  /\ \E request_history \in RaceHistories :
       /\ rate_limit_storage =
            [identifier \in DOMAIN InitialUsers |->
               IF identifier = call.identifier
                 THEN request_history ELSE <<>>]
       /\ granted = request_history
  /\ heap = <<>>
  /\ thread = [t \in Threads |->
                 [pc |-> "call", now |-> 0,
                  ret |-> [is_allowed |-> FALSE, remaining |-> 0,
                           reset_time |-> 0]]]
  /\ clock = 0

\* what the threads of the limiter leave alone
unshared ==
  <<call, pc, duration, dest_type, itinerary, current_date, day_num, ret,
    users, trips, heap>>

\* the deque the threads share (line 82)
request_history == rate_limit_storage[call.identifier]

\* window_start of thread t (line 79), in ticks
window_start(t) == thread[t].now - call.window_seconds * TicksPerSecond

\* time passes while the threads run
RaceTick ==
  /\ clock < RaceClock
  /\ clock' = clock + 1
  /\ UNCHANGED <<unshared, rate_limit_storage, thread, granted>>

\* now = time.time() (line 78)
RaceNow(t) ==
  /\ thread[t].pc = "call"
  /\ thread' = [thread EXCEPT ![t].now = clock, ![t].pc = "while"]
  /\ UNCHANGED <<unshared, rate_limit_storage, limiter>>

\* the test of the while loop (line 85)
RaceWhile(t) ==
  /\ thread[t].pc = "while"
  /\ thread' =
       [thread EXCEPT
          ![t].pc = IF request_history # <<>>
                         /\ request_history[1] < window_start(t)
                      THEN "popleft" ELSE "if"]
  /\ UNCHANGED <<unshared, rate_limit_storage, limiter>>

\* request_history.popleft() (line 86); IndexError on an empty deque
RacePopleft(t) ==
  /\ thread[t].pc = "popleft"
  /\ IF request_history = <<>>
       THEN /\ thread' = [thread EXCEPT ![t].pc = "raised"]
            /\ UNCHANGED rate_limit_storage
       ELSE /\ thread' = [thread EXCEPT ![t].pc = "while"]
            /\ rate_limit_storage' =
                 [rate_limit_storage EXCEPT
                    ![call.identifier] = Tail(request_history)]
  /\ UNCHANGED <<unshared, limiter>>

\* the test of the limit (line 89)
RaceIf(t) ==
  /\ thread[t].pc = "if"
  /\ thread' =
       [thread EXCEPT
          ![t].pc = IF Len(request_history) >= call.max_requests
                      THEN "oldest" ELSE "append"]
  /\ UNCHANGED <<unshared, rate_limit_storage, limiter>>

\* the denied call (lines 90-92); IndexError on an empty deque
RaceOldest(t) ==
  /\ thread[t].pc = "oldest"
  /\ IF request_history = <<>>
       THEN thread' = [thread EXCEPT ![t].pc = "raised"]
       ELSE thread' =
              [thread EXCEPT
                 ![t].pc = "returned",
                 ![t].ret =
                   [is_allowed |-> FALSE, remaining |-> 0,
                    reset_time |->
                      int(request_history[1]
                            + call.window_seconds * TicksPerSecond)]]
  /\ UNCHANGED <<unshared, rate_limit_storage, limiter>>

\* request_history.append(now) (line 95)
RaceAppend(t) ==
  /\ thread[t].pc = "append"
  /\ rate_limit_storage' =
       [rate_limit_storage EXCEPT
          ![call.identifier] = Append(request_history, thread[t].now)]
  /\ thread' = [thread EXCEPT ![t].pc = "remaining"]
  /\ UNCHANGED <<unshared, limiter>>

\* the allowed call (lines 97-100)
RaceAllowed(t) ==
  /\ thread[t].pc = "remaining"
  /\ thread' =
       [thread EXCEPT
          ![t].pc = "returned",
          ![t].ret =
            [is_allowed |-> TRUE,
             remaining |-> call.max_requests - Len(request_history),
             reset_time |->
               int(thread[t].now + call.window_seconds * TicksPerSecond)]]
  /\ granted' = Append(granted, thread[t].now)
  /\ UNCHANGED <<unshared, rate_limit_storage, clock>>

RaceNext ==
  \/ RaceTick
  \/ \E t \in Threads : RaceNow(t)
  \/ \E t \in Threads : RaceWhile(t)
  \/ \E t \in Threads : RacePopleft(t)
  \/ \E t \in Threads : RaceIf(t)
  \/ \E t \in Threads : RaceOldest(t)
  \/ \E t \in Threads : RaceAppend(t)
  \/ \E t \in Threads : RaceAllowed(t)

RaceSpec == RaceInit /\ [][RaceNext]_vars

-----------------------------------------------------------------------------
(* The accounts: POST /api/auth/register and POST /api/auth/login          *)
(* (routes/auth.py) on the table users.  A row of users holds here its     *)
(* email and its password_hash as well.                                    *)

Letters ==
  {LowerLetters[i] : i \in 1..Len(LowerLetters)}
    \cup {UpperLetters[i] : i \in 1..Len(UpperLetters)}

Digits == {"0", "1", "2", "3", "4", "5", "6", "7", "8", "9"}

\* the characters of the class of line 76 of utils/password_utils.py
Specials ==
  {"!", "@", "#", "$", "%", "^", "&", "*", "(", ")", "_", "+", "-", "=",
   "[", "]", "{", "}", ";", "'", ":", "\"", "\\", "|", ",", ".", "<", ">",
   "?"}

\* JSON null as the value of a field of a body
Null == <<"null">>

\* User.validate_email (models/user.py lines 53-57): the text matches
\* ^[a-zA-Z0-9._%+-]+@[a-zA-Z0-9.-]+\.[a-zA-Z]{2,}$
validate_email(email) ==
  \E at \in 2..Len(email) :
    \E dot \in (at + 2)..(Len(email) - 2) :
      /\ email[at] = "@"
      /\ email[dot] = "."
      /\ \A i \in 1..(at - 1) :
           email[i] \in Letters \cup Digits \cup {".", "_", "%", "+", "-"}
      /\ \A i \in (at + 1)..(dot - 1) :
           email[i] \in Letters \cup Digits \cup {".", "-"}
      /\ \A i \in (dot + 1)..Len(email) : email[i] \in Letters

\* weak_passwords (utils/password_utils.py lines 81-84)
weak_passwords ==
  {<<"p", "a", "s", "s", "w", "o", "r", "d">>,
   <<"1", "2", "3", "4", "5", "6">>,
   <<"1", "2", "3", "4", "5", "6", "7", "8", "9">>,
   <<"q", "w", "e", "r", "t", "y">>,
   <<"a", "b", "c", "1", "2", "3">>,
   <<"p", "a", "s", "s", "w", "o", "r", "d", "1", "2", "3">>,
   <<"a", "d", "m", "i", "n">>,
   <<"l", "e", "t", "m", "e", "i", "n">>,
   <<"w", "e", "l", "c", "o", "m", "e">>,
   <<"m", "o", "n", "k", "e", "y">>}

\* PasswordUtils.validate_password_strength (utils/password_utils.py lines
\* 42-90): is_valid
validate_password_strength(password) ==
  /\ ~(Len(password) < 8)
  /\ ~(Len(password) > 128)
  /\ \E i \in 1..Len(password) :
       \E j \in 1..Len(UpperLetters) : password[i] = UpperLetters[j]
  /\ \E i \in 1..Len(password) :
       \E j \in 1..Len(LowerLetters) : password[i] = LowerLetters[j]
  /\ \E i \in 1..Len(password) : password[i] \in Digits
  /\ \E i \in 1..Len(password) : password[i] \in Specials
  /\ lower(password) \notin weak_passwords

\* the salts bcrypt.gensalt() draws
Salts == {1, 2}

\* PasswordUtils.hash_password_bcrypt (lines 7-21) with the salt drawn
hash_password_bcrypt(password, salt) ==
  [salt |-> salt, password |-> password]

\* PasswordUtils.verify_password_bcrypt (lines 23-40)
verify_password_bcrypt(password, hashed_password) ==
  hashed_password = hash_password_bcrypt(password, hashed_password.salt)

\* the email of a body as it was sent
as_sent(text) == text

\* .strip().lower() of the email of a body (routes/auth.py lines 30, 113)
normalized(text) == lower(strip(text))

\* User.query.filter_by(email=email).first(): the id found, 0 for None
FindUser(email) ==
  IF \E i \in DOMAIN users : users[i].email = email
    THEN CHOOSE i \in DOMAIN users :
           /\ users[i].email = email
           /\ \A j \in DOMAIN users : users[j].email = email => i <= j
    ELSE 0

StrongPassword == <<"A", "a", "1", "!", "a", "a", "a", "a">>
OtherPassword == <<"B", "b", "2", "?", "b", "b", "b", "b">>
WeakPassword == <<"a", "a", "1", "!", "a", "a", "a", "a">>

\* the rows of users before the first request: an active user and a user
\* whose is_active is false
AuthUsers ==
  (1 :> [id |-> 1, email |-> <<"a", "@", "b", ".", "c", "o">>,
         password_hash |-> hash_password_bcrypt(StrongPassword, 1),
         is_active |-> TRUE, is_admin |-> FALSE])
    @@ (2 :> [id |-> 2, email |-> <<"i", "@", "b", ".", "c", "o">>,
              password_hash |-> hash_password_bcrypt(StrongPassword, 1),
              is_active |-> FALSE, is_admin |-> FALSE])

\* the emails of the bodies: of the stored users, the first one with
\* blanks and capitals, new ones, no email, '' and JSON null
Emails ==
  {<<"a", "@", "b", ".", "c", "o">>,
   <<" ", "A", "@", "B", ".", "c", "o", " ">>,
   <<"i", "@", "b", ".", "c", "o">>,
   <<"c", "@", "b", ".", "c", "o">>,
   <<"C", "@", "b", ".", "c", "o">>,
   <<"a", "@", "b">>,
   <<>>,
   Null}

\* the bodies POST /api/auth/register is sent; <<>> is the empty object and
\* a field that is '' stands for an absent one as well (data.get(..., ''))
RegisterCalls ==
  {[fn |-> "register", data |-> <<>>]}
    \cup {[fn |-> "register",
           data |-> [email |-> e, password |-> StrongPassword,
                     confirm_password |-> StrongPassword]] : e \in Emails}
    \cup {[fn |-> "register",
           data |-> [email |-> e, password |-> w[1],
                     confirm_password |-> w[2]]] :
            e \in {<<"a", "@", "b", ".", "c", "o">>, <<"c", "@", "b", ".", "c", "o">>},
            w \in {<<OtherPassword, OtherPassword>>,
                   <<StrongPassword, OtherPassword>>,
                   <<WeakPassword, WeakPassword>>,
                   <<<<>>, <<>>>>}}

\* the bodies POST /api/auth/login is sent
LoginCalls ==
  {[fn |-> "login", data |-> <<>>]}
    \cup {[fn |-> "login", data |-> [email |-> e, password |-> w]] :
            e \in Emails, w \in {StrongPassword, OtherPassword, <<>>}}

AuthInit ==
  /\ call = [fn |-> "none"]
  /\ pc = "ready"
  /\ duration = 0
  /\ dest_type = "None"
  /\ itinerary = <<>>
  /\ current_date = 0
  /\ day_num = 0
  /\ ret = <<>>
  /\ users = AuthUsers
  /\ trips = <<>>
  /\ rate_limit_storage = <<>>
  /\ heap = <<>>
  /\ thread = <<>>
  /\ clock = 0
  /\ granted = <<>>

\* POST /api/auth/register (routes/auth.py lines 9-92)
Register ==
  /\ pc \in {"ready", "responded"}
  /\ \E request \in RegisterCalls, salt \in Salts :
       LET data == request.data
           email == normalized(data.email)
           password == data.password
           new_user ==
             [id |-> NewId(users), email |-> strip(lower(email)),
              password_hash |-> hash_password_bcrypt(password, salt),
              is_active |-> TRUE, is_admin |-> FALSE]
       IN /\ call' = request
          /\ IF DOMAIN data = {}
               THEN ret' = [status |-> 400] /\ UNCHANGED users
             ELSE IF data.email = Null
               THEN ret' = [status |-> 500] /\ UNCHANGED users
             ELSE IF email = <<>> \/ password = <<>>
               THEN ret' = [status |-> 400] /\ UNCHANGED users
             ELSE IF ~validate_email(email)
               THEN ret' = [status |-> 400] /\ UNCHANGED users
             ELSE IF FindUser(email) # 0
               THEN ret' = [status |-> 409] /\ UNCHANGED users
             ELSE IF password # data.confirm_password
               THEN ret' = [status |-> 400] /\ UNCHANGED users
             ELSE IF ~validate_password_strength(password)
               THEN ret' = [status |-> 400] /\ UNCHANGED users
             ELSE IF \E i \in DOMAIN users : users[i].email = new_user.email
               THEN ret' = [status |-> 500] /\ UNCHANGED users
             ELSE /\ users' = Inserted(users, new_user)
                  /\ ret' = [status |-> 201, user |-> new_user.id,
                             tokens |-> new_user.id]
  /\ pc' = "responded"
  /\ UNCHANGED <<locals, trips, rate_limit_storage, threads>>

\* POST /api/auth/login (routes/auth.py lines 94-152), with
\* User.authenticate (models/user.py lines 43-51)
Login ==
  /\ pc \in {"ready", "responded"}
  /\ \E request \in LoginCalls :
       LET data == request.data
           email == normalized(data.email)
           password == data.password
           user == FindUser(email)
       IN /\ call' = request
          /\ ret' =
               IF DOMAIN data = {} THEN [status |-> 400]
               ELSE IF data.email = Null THEN [status |-> 500]
               ELSE IF email = <<>> \/ password = <<>>
                 THEN [status |-> 400]
               ELSE IF user = 0 THEN [status |-> 401]
               ELSE IF ~users[user].is_active THEN [status |-> 401]
               ELSE IF ~verify_password_bcrypt(password,
                                               users[user].password_hash)
                 THEN [status |-> 401]
               ELSE [status |-> 200, user |-> user, tokens |-> user]
  /\ pc' = "responded"
  /\ UNCHANGED <<locals, store, threads>>

AuthNext ==
  \/ Register
  \/ Login

AuthSpec == AuthInit /\ [][AuthNext]_vars

-----------------------------------------------------------------------------
(* The claims.                                                             *)

\* the call of f has returned
Returned(f) == pc = "returned" /\ call.fn = f

\* the call of f has ended, with a value or with an exception
Ended(f) == pc \in {"returned", "raised"} /\ call.fn = f

Archetypes == {DeclarationOrder[i] : i \in 1..Len(DeclarationOrder)}

\* the table key a dest_type value stands for
TableKey(dt) == IF dt \in Archetypes THEN dt ELSE "city"

\* keyword is a run of consecutive characters of text
Occurs(keyword, text) ==
  \E i \in 0..(Len(text) - Len(keyword)) :
    SubSeq(text, i + 1, i + Len(keyword)) = keyword

\* how many keywords of each archetype occur in text
Hits(text) ==
  [a \in {DeclarationOrder[i] : i \in 1..Len(DeclarationOrder)} |->
     Cardinality({k \in 1..Len(DESTINATION_KEYWORDS[a]) :
                    Occurs(DESTINATION_KEYWORDS[a][k], text)})]

\* the position of archetype a in the declaration order
Position(a) == CHOOSE i \in 1..Len(DeclarationOrder) : DeclarationOrder[i] = a

\* the text of a classify_destination call, lower-cased
CallText == lower(call.destination \o <<" ">> \o call.description)

\* str.upper() on one character: a-z go to A-Z, and the dotless i goes to I
UpperChar(c) ==
  IF c = "i_dotless" THEN "I"
  ELSE IF \E i \in 1..Len(LowerLetters) : LowerLetters[i] = c
    THEN UpperLetters[CHOOSE i \in 1..Len(LowerLetters) : LowerLetters[i] = c]
    ELSE c

\* str.upper()
upper(s) == [i \in 1..Len(s) |-> UpperChar(s[i])]

\* the ASCII letters of s in upper case, every other character as it is
AsciiUpper(s) ==
  [i \in 1..Len(s) |-> IF s[i] = "i_dotless" THEN s[i] ELSE UpperChar(s[i])]

\* the ASCII letters of s in lower case, every other character as it is
AsciiLower(s) ==
  [i \in 1..Len(s) |->
     IF \E k \in 1..Len(UpperLetters) : UpperLetters[k] = s[i]
       THEN LowerLetters[CHOOSE k \in 1..Len(UpperLetters) : UpperLetters[k] = s[i]]
       ELSE s[i]]

IsLeapYear(y) == (y % 4 = 0 /\ y % 100 # 0) \/ y % 400 = 0

MonthLength(y, m) ==
  IF m = 2 THEN (IF IsLeapYear(y) THEN 29 ELSE 28)
  ELSE IF m \in {4, 6, 9, 11} THEN 30
  ELSE 31

\* the calendar day after <<y, m, d>>
NextCalendarDay(ymd) ==
  IF ymd[3] < MonthLength(ymd[1], ymd[2]) THEN <<ymd[1], ymd[2], ymd[3] + 1>>
  ELSE IF ymd[2] < 12 THEN <<ymd[1], ymd[2] + 1, 1>>
  ELSE <<ymd[1] + 1, 1, 1>>

\* C1: for every start date and end date with end >= start,
\* generate_default_itinerary returns a list, and the list's length is
\* (end - start).days + 1.
C1_LengthIsDuration ==
  (Ended("generate_default_itinerary") /\ call.end_date >= call.start_date)
    => /\ pc = "returned"
       /\ Len(ret) = (call.end_date - call.start_date) + 1

\* C2: in the list generate_default_itinerary returns for end >= start, the
\* entry at position i has day = i and the date start + (i - 1) days: the
\* days are 1..N in order, the first date is the start date, each later date
\* is the calendar day after the one before it, and the last is the end date.
C2_DaysAndDates ==
  (Returned("generate_default_itinerary") /\ call.end_date >= call.start_date)
    => /\ Len(ret) = (call.end_date - call.start_date) + 1
       /\ \A i \in 1..Len(ret) :
            /\ ret[i].day = i
            /\ ret[i].date = strftime(call.start_date + (i - 1))
            /\ i > 1 => ret[i].date = NextCalendarDay(ret[i - 1].date)
       /\ ret[Len(ret)].date = strftime(call.end_date)

\* a three-day itinerary from 2024-02-28 over the leap day to 2024-03-01
C2_Witness ==
  /\ Returned("generate_default_itinerary")
  /\ Len(ret) = 3
  /\ ret[1].date = <<2024, 2, 28>>
  /\ ret[2].date = <<2024, 2, 29>>
  /\ ret[3].date = <<2024, 3, 1>>
  /\ ret[3].day = 3

C4_TotalDefaultCity ==
  (call.fn = "classify_destination")
    => /\ pc \in {"call", "returned"}
       /\ pc = "returned" =>
            /\ ret \in Archetypes
            /\ (\A a \in Archetypes : Hits(CallText)[a] = 0) => ret = "city"

\* classify_destination("", "") has returned 'city'
C4_Witness ==
  /\ Returned("classify_destination")
  /\ call.destination = <<>>
  /\ call.description = <<>>
  /\ ret = "city"

\* C5 as claimed: changing the letter case of destination and description
\* (here with str.upper()) never changes the returned archetype.
C5_AnyLetterCase ==
  Returned("classify_destination")
    => ret = classify_destination(upper(call.destination), upper(call.description))

\* C5, amended: classify_destination is substring-based and insensitive to
\* the case of ASCII letters: putting the letters a-z and A-Z of destination
\* and description in upper or in lower case never changes the returned
\* archetype, and a keyword counts inside a longer word; ("BALI retreat", "")
\* gives 'beach' and ("zoom", "") gives 'family'.
C5_AsciiLetterCase ==
  Returned("classify_destination")
    => /\ ret = classify_destination(AsciiUpper(call.destination),
                                     AsciiUpper(call.description))
       /\ ret = classify_destination(AsciiLower(call.destination),
                                     AsciiLower(call.description))
       /\ (/\ call.destination = <<"B", "A", "L", "I", " ",
                                   "r", "e", "t", "r", "e", "a", "t">>
           /\ call.description = <<>>) => ret = "beach"
       /\ (/\ call.destination = <<"z", "o", "o", "m">>
           /\ call.description = <<>>) => ret = "family"

\* classify_destination("BALI retreat", "") has returned 'beach'
C5_Witness ==
  /\ Returned("classify_destination")
  /\ call.destination = <<"B", "A", "L", "I", " ",
                          "r", "e", "t", "r", "e", "a", "t">>
  /\ call.description = <<>>
  /\ ret = "beach"

\* C6: for every day_num >= 1, total_days >= 1 and every archetype value,
\* known or not, generate_daily_activities returns at most 4 activities.
C6_AtMostFour ==
  Returned("generate_daily_activities") => Len(ret) <= 4

\* a departure day, on which five activities are collected, for a value
\* that is no archetype
C6_Witness ==
  /\ Returned("generate_daily_activities")
  /\ call.day_num = call.total_days
  /\ call.day_num > 1
  /\ call.dest_type \notin Archetypes
  /\ Len(ret) = 4

\* C7: for day_num = 1, generate_daily_activities returns the first 2
\* entries of the archetype's arrival list, followed by the first entry of
\* its evening list exactly when total_days > 1; the only day of a
\* single-day trip is an arrival day, not a departure day.
C7_ArrivalDay ==
  (Returned("generate_daily_activities") /\ call.day_num = 1)
    => LET t == ACTIVITY_TEMPLATES[TableKey(call.dest_type)]
       IN /\ call.total_days > 1 =>
               ret = <<t.arrival[1], t.arrival[2], t.evening[1]>>
          /\ call.total_days = 1 =>
               ret = <<t.arrival[1], t.arrival[2]>>

\* the only day of a single-day trip has returned its two arrival entries
C7_Witness ==
  /\ Returned("generate_daily_activities")
  /\ call.day_num = 1
  /\ call.total_days = 1
  /\ call.dest_type = "beach"
  /\ ret = <<"Arrive at destination", "Check into beachfront accommodation">>

\* C8: for day_num = total_days and day_num # 1, generate_daily_activities
\* returns exactly morning[0], departure[0], departure[1], departure[2] of
\* the archetype: the last departure entry is dropped.
C8_DepartureDay ==
  (Returned("generate_daily_activities")
     /\ call.day_num = call.total_days /\ call.day_num # 1)
    => LET t == ACTIVITY_TEMPLATES[TableKey(call.dest_type)]
       IN /\ ret = <<t.morning[1], t.departure[1], t.departure[2], t.departure[3]>>
          /\ \A i \in 1..Len(ret) : ret[i] # t.departure[Len(t.departure)]

\* the last day of a three-day city trip
C8_Witness ==
  /\ Returned("generate_daily_activities")
  /\ call.day_num = 3
  /\ call.total_days = 3
  /\ call.dest_type = "city"
  /\ ret = <<"Historic district exploration", "Final city walk",
             "Last-minute shopping", "Coffee at local cafe">>

\* C9: for a middle day (1 < day_num < total_days),
\* generate_daily_activities returns exactly the first 2 entries of the
\* archetype's morning list followed by the first 2 of its afternoon list;
\* the evening entry is dropped.
C9_MiddleDay ==
  (Returned("generate_daily_activities")
     /\ 1 < call.day_num /\ call.day_num < call.total_days)
    => LET t == ACTIVITY_TEMPLATES[TableKey(call.dest_type)]
       IN /\ ret = <<t.morning[1], t.morning[2], t.afternoon[1], t.afternoon[2]>>
          /\ \A i \in 1..Len(ret) : ret[i] # t.evening[1]

\* the second day of a three-day city trip
C9_Witness ==
  /\ Returned("generate_daily_activities")
  /\ call.day_num = 2
  /\ call.total_days = 3
  /\ call.dest_type = "city"
  /\ ret = <<"Historic district exploration", "Famous landmarks tour",
             "Shopping districts", "Cultural sites visit">>

\* C10: get_day_notes returns the archetype's first-day note when
\* day_num = 1, its last-day note when day_num = total_days and
\* day_num # 1, and its middle note otherwise; the only day of a single-day
\* trip gets the first-day note, not the last-day note.
C10_DayNotes ==
  Returned("get_day_notes")
    => LET notes == notes_map[TableKey(call.dest_type)]
       IN /\ call.day_num = 1 => ret = notes.first
          /\ (call.day_num = call.total_days /\ call.day_num # 1)
               => ret = notes.last
          /\ (call.day_num # 1 /\ call.day_num # call.total_days)
               => ret = notes.middle
          /\ (call.day_num = 1 /\ call.total_days = 1) => ret # notes.last

\* the only day of a single-day beach trip has got the first-day note
C10_Witness ==
  /\ Returned("get_day_notes")
  /\ call.day_num = 1
  /\ call.total_days = 1
  /\ call.dest_type = "beach"
  /\ ret = "Apply sunscreen and stay hydrated"

\* C11: generate_default_itinerary never raises: when a step of its main
\* path fails, the call still returns an itinerary, the result of
\* generate_basic_itinerary(start_date, end_date).
C11_NeverRaises ==
  (call.fn = "generate_default_itinerary")
    => pc # "raised"

\* C12: generate_basic_itinerary(start, end) never raises and returns
\* exactly (end - start).days + 1 entries; entry n has day = n, the note
\* "Day n of your trip", the 3-item arrival list on day 1, the 3-item
\* departure list on the last day when that is not day 1, and the 4-item
\* list on every day between.
C12_BasicItinerary ==
  (Ended("generate_basic_itinerary") /\ call.end_date >= call.start_date)
    => /\ pc = "returned"
       /\ Len(ret) = (call.end_date - call.start_date) + 1
       /\ \A n \in 1..Len(ret) :
            /\ ret[n].day = n
            /\ ret[n].notes = <<"Day ", n, " of your trip">>
            /\ ret[n].activities =
                 IF n = 1
                   THEN <<"Arrive at destination", "Check into accommodation",
                          "Explore nearby area">>
                 ELSE IF n = Len(ret)
                   THEN <<"Final sightseeing", "Pack and check out", "Departure">>
                 ELSE <<"Morning sightseeing", "Lunch at local restaurant",
                        "Afternoon activities", "Evening relaxation">>

\* C13: for an archetype value that is none of the eight table keys,
\* generate_daily_activities and get_day_notes return what they return for
\* 'city' with the same day_num and total_days, and do not raise.
C13_UnknownIsCity ==
  (call.fn \in {"generate_daily_activities", "get_day_notes"}
     /\ call.dest_type \notin Archetypes)
    => /\ pc \in {"call", "returned"}
       /\ Returned("generate_daily_activities") =>
            ret = generate_daily_activities(call.day_num, call.total_days,
                                            "city", <<>>)
       /\ Returned("get_day_notes") =>
            ret = get_day_notes(call.day_num, call.total_days, "city")

\* the first day of a three-day trip, for the value 'space': the city's
\* arrival and evening entries
C13_Witness ==
  /\ Returned("generate_daily_activities")
  /\ call.dest_type = "space"
  /\ call.day_num = 1
  /\ call.total_days = 3
  /\ ret = <<"Arrive in the city", "Check into hotel",
             "Dinner at local restaurant">>

\* C14: generate_default_itinerary classifies the trip once, as
\* classify_destination(destination, description + " " + title), and uses
\* that archetype for the activities and the note of every day; a keyword
\* that occurs only in the title decides the archetype of the whole
\* itinerary.
C14_ClassifiedOnceWithTitle ==
  LET archetype ==
        classify_destination(call.destination,
                             call.description \o <<" ">> \o call.title)
  IN (call.fn = "generate_default_itinerary")
       => /\ pc \in {"loop", "returned"} => dest_type = archetype
          /\ pc = "returned" =>
               \A i \in 1..Len(ret) :
                 /\ ret[i].activities =
                      generate_daily_activities(i, Len(ret), archetype, <<>>)
                 /\ ret[i].notes = get_day_notes(i, Len(ret), archetype)
          /\ (/\ pc = "returned"
              /\ Len(ret) >= 1
              /\ call.destination = <<"r", "e", "t", "r", "e", "a", "t">>
              /\ call.description = <<>>
              /\ call.title = <<"z", "o", "o", "m">>)
               => ret[1].notes = "Keep kids engaged with family activities"

\* "retreat" with the title "zoom": three days, all of the family archetype
C14_Witness ==
  /\ Returned("generate_default_itinerary")
  /\ call.destination = <<"r", "e", "t", "r", "e", "a", "t">>
  /\ call.description = <<>>
  /\ call.title = <<"z", "o", "o", "m">>
  /\ Len(ret) = 3
  /\ ret[1].notes = "Keep kids engaged with family activities"
  /\ ret[2].notes = "Balance fun with rest time"
  /\ ret[3].notes = "Collect family photos and memories"

\* the route is running the generator, or has its answer
InGenerator(f) ==
  call.fn = f /\ pc \in {"loop", "except", "basic_loop", "returned", "raised"}

\* C15: on every API path that invokes the itinerary generator, a request
\* whose end_date is before its start_date, or whose duration exceeds 365
\* days, is rejected before the generator is invoked: the generator never
\* runs for the API with a duration below 1 or above 366 days.
C15_ValidatedBeforeGenerator ==
  InGenerator("preview_default_itinerary")
    => /\ strptime(call.end_date) >= strptime(call.start_date)
       /\ duration >= 1
       /\ duration <= 366

\* the response to a request of route f
Responded(f) == pc = "responded" /\ call.fn = f

\* a create_trip request that passed require_auth and the limiter, with a
\* body in which only the dates, both well formed, differ from CreateBody
OnlyDatesDecide ==
  /\ Responded("create_trip")
  /\ ret.status \notin {401, 429}
  /\ IsDate(call.data.start_date)
  /\ IsDate(call.data.end_date)
  /\ call.data = [CreateBody EXCEPT !.start_date = call.data.start_date,
                                    !.end_date = call.data.end_date]

\* C16: Trip.validate_dates, and so create_trip, accepts a date pair
\* exactly when end_date >= start_date: a single-day trip is accepted and
\* only end_date < start_date is rejected with 400.
C16_SameDayAccepted ==
  OnlyDatesDecide
    => /\ ret.status = 201
            <=> strptime(call.data.end_date) >= strptime(call.data.start_date)
       /\ ret.status \in {201, 400}

\* C16, as the code has it: Trip.validate_dates, and so create_trip,
\* accepts a date pair exactly when end_date > start_date; a pair with
\* end_date <= start_date, the single-day trip included, is rejected with
\* 400.
C16_EndAfterStart ==
  OnlyDatesDecide
    => /\ ret.status = 201
            <=> strptime(call.data.end_date) > strptime(call.data.start_date)
       /\ ret.status \in {201, 400}
       /\ ret.status = 201 => ret.trip.start_date < ret.trip.end_date

\* a single-day trip, rejected
C16_Witness ==
  /\ OnlyDatesDecide
  /\ call.token = 1
  /\ call.data.start_date = call.data.end_date
  /\ ret.status = 400

\* C19: GET, PUT and DELETE on /api/trips/<trip_id> act only on trips the
\* authenticated caller owns: for a trip of another user, also when the
\* caller is an admin, the response is 404 with no trip in it and the table
\* of trips is as it was.
C19_OwnTripsOnly ==
  [][(/\ call'.fn = "handle_trip"
      /\ validate_token(call'.token) # 0
      /\ call'.trip_id \in DOMAIN trips
      /\ trips[call'.trip_id].user_id # call'.token)
       => /\ ret' = [status |-> 404]
          /\ trips' = trips]_vars

\* the admin asks to delete the trip of user 1, which stays
C19_Witness ==
  /\ Responded("handle_trip")
  /\ call.method = "DELETE"
  /\ call.token = 2
  /\ users[2].is_admin
  /\ call.trip_id \in DOMAIN trips
  /\ trips[call.trip_id].user_id = 1
  /\ ret.status = 404

\* the caller of the request is an admin
CallerIsAdmin == call.token \in DOMAIN users /\ users[call.token].is_admin

AcceptableBody(data) ==
  /\ strip(data.title) # <<>>
  /\ strip(data.destination) # <<>>
  /\ IsDate(data.start_date)
  /\ IsDate(data.end_date)
  /\ strptime(data.start_date) < strptime(data.end_date)
  /\ data.latitude # <<>> => data.latitude[1] \in -90..90
  /\ data.longitude # <<>> => data.longitude[1] \in -180..180
  /\ data.budget # <<>> => data.budget[1] >= 0
  /\ data.itinerary # "text"

\* the create requests of the user recorded within the last hour
RecentCreates(user) ==
  Cardinality({k \in 1..Len(rate_limit_storage[user]) :
                 rate_limit_storage[user][k] >= now - CreateWindowSeconds})

\* GET /api/trips/<id> by the owner of a stored trip returns it with 200
OwnerGetsTrip ==
  (/\ Responded("handle_trip")
   /\ call.method = "GET"
   /\ validate_token(call.token) # 0
   /\ call.trip_id \in DOMAIN trips
   /\ trips[call.trip_id].user_id = call.token)
    => ret = [status |-> 200, trip |-> trips[call.trip_id]]

\* a stored trip stays stored, with its id and its owner, through every
\* request but the DELETE of its owner
TripStays ==
  \A i \in DOMAIN trips :
    \/ /\ i \in DOMAIN trips'
       /\ trips'[i].id = i
       /\ trips'[i].user_id = trips[i].user_id
    \/ /\ call'.fn = "handle_trip"
       /\ call'.method = "DELETE"
       /\ call'.trip_id = i
       /\ call'.token = trips[i].user_id

AloneResult(c) ==
  IF c.fn = "classify_destination"
    THEN classify_destination(c.destination, c.description)
  ELSE LET total_days == (c.end_date - c.start_date) + 1
           archetype ==
             classify_destination(c.destination,
                                  c.description \o <<" ">> \o c.title)
       IN [i \in 1..total_days |->
             [day |-> i,
              date |-> strftime(c.start_date + (i - 1)),
              activities |->
                generate_daily_activities(i, total_days, archetype, <<>>),
              notes |-> get_day_notes(i, total_days, archetype)]]

\* the places where a returned itinerary holds a list of activities
ReturnedPlaces ==
  {<<t, i>> \in Threads \X (1..ConcDays) :
     /\ thread[t].pc = "returned"
     /\ thread[t].call.fn = "generate_default_itinerary"
     /\ i <= Len(thread[t].itinerary)}

\* C17: under any interleaving of concurrent calls of
\* generate_default_itinerary and classify_destination, each call returns
\* what it returns when run alone, the lists of ACTIVITY_TEMPLATES hold what
\* they held before the calls, and the lists of activities returned are
\* fresh: no two places of the returned itineraries hold the same list and
\* none holds a list of the table, so that a caller's change of a returned
\* list changes no later result.
C17_ConcurrentCallsAsAlone ==
  /\ \A address \in TableAddresses : heap[address] = TableHeap[address]
  /\ \A t \in Threads :
       thread[t].pc = "returned" => thread[t].ret = AloneResult(thread[t].call)
  /\ \A p \in ReturnedPlaces :
       /\ thread[p[1]].itinerary[p[2]].activities \notin TableAddresses
       /\ \A q \in ReturnedPlaces \ {p} :
            thread[p[1]].itinerary[p[2]].activities
              # thread[q[1]].itinerary[q[2]].activities

\* thread 1 has returned and its caller has changed a list; thread 2, on
\* the same kind of destination, is between two extend statements
C17_Witness ==
  /\ thread[1].pc = "returned"
  /\ thread[1].call.fn = "generate_default_itinerary"
  /\ \E i \in 1..Len(thread[1].itinerary) :
       LET list == heap[thread[1].itinerary[i].activities]
       IN list[Len(list)] = "Go home"
  /\ thread[2].pc = "extend"
  /\ thread[2].dest_type = thread[1].dest_type
  /\ heap[thread[2].activities] # <<>>
  /\ thread[2].plan # <<>>

\* the routes wrapped in require_auth or require_admin
GuardedRoutes ==
  {"create_trip", "handle_trip", "generate_itinerary", "user_only_route",
   "admin_only_route"}

\* the token is valid and its identity is a stored user that is active
ActiveUser(token) == token \in DOMAIN users /\ users[token].is_active

\* C21: a handler wrapped in require_auth runs only when the request carries
\* a valid JWT whose identity is a stored user with is_active true;
\* otherwise the response is 401 and nothing stored changes.  A handler
\* wrapped in require_admin runs only when that user's is_admin is true as
\* well, and the response is 403 (with nothing stored changed) otherwise.
C21_HandlerOnlyForActiveUser ==
  [][call'.fn \in GuardedRoutes =>
       /\ ret'.status = 401 <=> ~ActiveUser(call'.token)
       /\ ret'.status = 401 => UNCHANGED store
       /\ call'.fn = "admin_only_route" /\ ActiveUser(call'.token) =>
            IF users[call'.token].is_admin
              THEN ret'.status = 200
              ELSE ret'.status = 403 /\ UNCHANGED store]_vars

\* with a trip stored, the token of the inactive user was refused a trip
C21_Witness ==
  /\ Responded("create_trip")
  /\ call.token = 3
  /\ ~users[3].is_active
  /\ ret.status = 401
  /\ DOMAIN trips # {}

\* the window of the limiter's call, in ticks
Window == call.window_seconds * TicksPerSecond

\* the calls allowed from the time given to a window later, both included
GrantedFrom(time) ==
  {j \in DOMAIN granted : time <= granted[j] /\ granted[j] <= time + Window}

\* at most max_requests calls were allowed within any interval of
\* window_seconds, the history holds at most max_requests timestamps, and
\* an allowed call's remaining is max_requests less the calls recorded in
\* the window that ends with it
LimitKept ==
  /\ \A i \in DOMAIN granted :
       Cardinality(GrantedFrom(granted[i])) <= call.max_requests
  /\ Len(rate_limit_storage[call.identifier]) <= call.max_requests
  /\ pc = "returned" /\ ret.is_allowed =>
       LET time == granted[Len(granted)]
       IN /\ ret.remaining =
               call.max_requests - Cardinality(GrantedFrom(time - Window))
          /\ ret.remaining =
               call.max_requests - Len(rate_limit_storage[call.identifier])

\* the call was denied
Denied == pc = "returned" /\ ~ret.is_allowed

C23_LimitHoldsConcurrently ==
  /\ \A i \in DOMAIN granted :
       Cardinality(GrantedFrom(granted[i])) <= call.max_requests
  /\ Len(rate_limit_storage[call.identifier]) <= call.max_requests

\* two emails are the same after trimming and lower-casing
SameEmail(a, b) == lower(strip(a)) = lower(strip(b))

\* no two stored users have the same email
NoSharedEmail ==
  \A i, j \in DOMAIN users :
    i # j => ~SameEmail(users[i].email, users[j].email)

\* the body has an email, and a stored user has that email
Taken(data) ==
  /\ DOMAIN data # {}
  /\ data.email # Null
  /\ \E i \in DOMAIN users : SameEmail(users[i].email, data.email)

\* a register call that fails leaves the stored users as they were
FailedRegisterAddsNothing ==
  call'.fn = "register" /\ ret'.status \in {400, 409, 500} => users' = users

\* C24 as stated: no two stored users have the same email, a register call
\* whose normalized email already belongs to a stored user returns 409 and
\* adds no user, and every failed register call leaves the stored users
\* unchanged.
C24_TakenEmailReturns409 ==
  /\ []NoSharedEmail
  /\ [][/\ FailedRegisterAddsNothing
        /\ call'.fn = "register" /\ Taken(call'.data) =>
             ret'.status = 409 /\ users' = users]_vars

\* C24: after any sequence of register calls no two stored users have the
\* same email (compared after trimming and lower-casing): a register call
\* whose normalized email already belongs to a stored user adds no user and
\* returns 409, or 400 when its body has no password; every failed register
\* call (400, 409 or 500) leaves the set of stored users unchanged.
C24_UniqueEmails ==
  /\ []NoSharedEmail
  /\ [][/\ FailedRegisterAddsNothing
        /\ call'.fn = "register" /\ Taken(call'.data) =>
             /\ ret'.status = IF call'.data.password = <<>> THEN 400 ELSE 409
             /\ users' = users]_vars

\* a user was registered, and a second registration of its email, sent
\* with a capital, was answered 409
C24_Witness ==
  /\ Responded("register")
  /\ ret.status = 409
  /\ call.data.email = <<"C", "@", "b", ".", "c", "o">>
  /\ \E i \in DOMAIN users \ DOMAIN AuthUsers :
       users[i].email = <<"c", "@", "b", ".", "c", "o">>

\* a stored user has the normalized email of the body, is active, and its
\* password_hash is the hash of the body's password
GoodCredentials(data) ==
  /\ DOMAIN data # {}
  /\ data.email # Null
  /\ \E i \in DOMAIN users :
       /\ users[i].email = lower(strip(data.email))
       /\ users[i].is_active
       /\ users[i].password_hash.password = data.password

\* C25: login issues tokens (200) if and only if a user with the normalized
\* email exists, that user is active and the supplied password matches the
\* stored hash; in every other case it returns 400 or 401 and issues no
\* tokens; no login changes stored state.
C25_TokensOnlyForCredentials ==
  /\ [](Responded("login") =>
          IF GoodCredentials(call.data)
            THEN ret.status = 200 /\ "tokens" \in DOMAIN ret
            ELSE ret.status \in {400, 401} /\ "tokens" \notin DOMAIN ret)
  /\ [][call'.fn = "login" => UNCHANGED store]_vars

\* C26: POST /api/trips/<trip_id>/generate-itinerary by the trip's owner or
\* an admin is answered 200: if the trip already has an itinerary and the
\* request does not set overwrite to true, the stored itinerary is left
\* unchanged and the response carries the existing and the suggested
\* itinerary; otherwise the generated default itinerary is stored on the
\* trip and returned.
C26_ItineraryGeneratedForOwner ==
  [][/\ call'.fn = "generate_itinerary"
     /\ call'.trip_id \in DOMAIN trips
     /\ ActiveUser(call'.token)
     /\ \/ trips[call'.trip_id].user_id = call'.token
        \/ users[call'.token].is_admin
     => /\ ret'.status = 200
        /\ IF trips[call'.trip_id].itinerary # "None" /\ ~call'.overwrite
             THEN /\ trips' = trips
                  /\ ret'.existing_itinerary = trips[call'.trip_id].itinerary
                  /\ "suggested_itinerary" \in DOMAIN ret'
             ELSE /\ trips'[call'.trip_id].itinerary # "None"
                  /\ ret'.itinerary = trips'[call'.trip_id].itinerary]_vars

\* the rules create_trip enforces on a trip
SatisfiesCreateRules(trip) ==
  /\ trip.start_date < trip.end_date
  /\ trip.budget # <<>> => trip.budget[1] >= 0
  /\ trip.latitude # <<>> => trip.latitude[1] \in -90..90
  /\ trip.longitude # <<>> => trip.longitude[1] \in -180..180

\* C27: after any sequence of create and update (PUT) calls every stored
\* trip satisfies the rules that create_trip enforces: start_date before
\* end_date, a non-negative budget when a budget is present, and latitude
\* and longitude within [-90, 90] and [-180, 180].
C27_StoredTripsValid ==
  \A i \in DOMAIN trips : SatisfiesCreateRules(trips[i])

====
